---- MODULE Spec2Model ----
(***************************************************************************)
(* A model of the domain and use-case layer of stellara-frontend:          *)
(* the Message and Conversation entities (objects on a heap, so that       *)
(* aliasing and in-place mutation are expressible), their JSON             *)
(* serialisation, and the use cases that orchestrate validation,           *)
(* repository calls and error normalisation.                               *)
(*                                                                         *)
(* JavaScript values are modelled as follows.                              *)
(*   string            a TLA+ string; characters are read with SubSeq      *)
(*   T | undefined     None (<<>>) or Some(v) (<<v>>)                      *)
(*   Date              its time value, an integer; NaN is Invalid Date     *)
(*   array             a reference (an index) into a heap of arrays        *)
(*   object instance   a reference (an index) into a heap of instances     *)
(*   thrown value      [isError, message]                                  *)
(***************************************************************************)
EXTENDS Integers, Sequences, FiniteSets, TLC

VARIABLES
  heap,     \* [strArrays, msgArrays, messages, conversations]: the objects
  held,     \* [str, msg]: the arrays that code outside the entities can reach
  last,     \* the last entity operation: what was called and what it gave
  uc,       \* the use-case invocation in progress
  repo,     \* AiRepository's local storage and its calls in flight
  ui        \* the state of the screen component in use

vars == <<heap, held, last, uc, repo, ui>>

(***************************************************************************)
(* Bounds of the model.                                                    *)
(***************************************************************************)
MaxTime == 2            \* clock readings are 0..MaxTime
MaxMessages == 2        \* Message instances built by the outside code
MaxConversations == 2   \* Conversation instances
MaxHeld == 1            \* arrays of each kind the outside code holds
MaxArrayLength == 2     \* length to which the outside code grows an array

(***************************************************************************)
(* Optional values.                                                        *)
(***************************************************************************)
None == <<>>
Some(v) == <<v>>
IsSome(o) == o # <<>>
Get(o) == o[1]

(***************************************************************************)
(* Strings.                                                                *)
(***************************************************************************)
Char(s, i) == SubSeq(s, i, i)

IsSpace(ch) == ch \in {" ", "\t", "\n"}

\* the string from its first character that is no white space
TrimStart(s) ==
  IF \A i \in 1..Len(s) : IsSpace(Char(s, i)) THEN ""
  ELSE LET first == CHOOSE i \in 1..Len(s) :
                      /\ ~IsSpace(Char(s, i))
                      /\ \A j \in 1..(i - 1) : IsSpace(Char(s, j))
       IN SubSeq(s, first, Len(s))

\* the string up to its last character that is no white space
TrimEnd(s) ==
  IF \A i \in 1..Len(s) : IsSpace(Char(s, i)) THEN ""
  ELSE LET trailing == CHOOSE k \in 0..(Len(s) - 1) :
                         /\ ~IsSpace(Char(s, Len(s) - k))
                         /\ \A j \in (Len(s) - k + 1)..Len(s) : IsSpace(Char(s, j))
       IN SubSeq(s, 1, Len(s) - trailing)

\* String.prototype.trim
Trim(s) == TrimEnd(TrimStart(s))

\* String.prototype.includes
Includes(s, sub) ==
  \E i \in 1..(Len(s) - Len(sub) + 1) : SubSeq(s, i, i + Len(sub) - 1) = sub

RECURSIVE Repeat(_, _)
\* String.prototype.repeat (by halving, to keep the recursion shallow)
Repeat(s, n) ==
  IF n = 0 THEN ""
  ELSE IF n % 2 = 0 THEN LET half == Repeat(s, n \div 2) IN half \o half
  ELSE s \o Repeat(s, n - 1)

Digits == "0123456789"

IsDigit(ch) == ch \in {Char(Digits, i) : i \in 1..10}

DigitOf(ch) == CHOOSE d \in 0..9 : Char(Digits, d + 1) = ch

RECURSIVE NatToString(_)
\* Number.prototype.toString for a non-negative integer
NatToString(n) ==
  IF n < 10 THEN Char(Digits, n + 1)
  ELSE NatToString(n \div 10) \o Char(Digits, (n % 10) + 1)

RECURSIVE StringToNat(_)
StringToNat(s) ==
  IF Len(s) = 0 THEN 0
  ELSE 10 * StringToNat(SubSeq(s, 1, Len(s) - 1)) + DigitOf(Char(s, Len(s)))

AllDigits(s) == \A i \in 1..Len(s) : IsDigit(Char(s, i))

\* String.prototype.padStart(n, "0")
PadStart(s, n) == Repeat("0", IF Len(s) < n THEN n - Len(s) ELSE 0) \o s

(***************************************************************************)
(* Dates.  A Date is its time value in milliseconds since the epoch; NaN   *)
(* is the time value of an Invalid Date, for which every comparison is     *)
(* false.                                                                  *)
(***************************************************************************)
NaN == -1

Times == 0..MaxTime

IsValidDate(t) == t # NaN

\* a < b on Dates
DateLess(a, b) == IsValidDate(a) /\ IsValidDate(b) /\ a < b

\* a >= b on Dates
DateGeq(a, b) == IsValidDate(a) /\ IsValidDate(b) /\ a >= b

\* a variant that writes whole seconds only
ToISOStringSeconds(t) ==
  "1970-01-01T00:00:" \o PadStart(NatToString(t \div 1000), 2) \o ".000Z"

\* Date.prototype.toISOString, for time values within the first minute of
\* the epoch
ToISOString(t) ==
  "1970-01-01T00:00:" \o PadStart(NatToString(t \div 1000), 2) \o "."
    \o PadStart(NatToString(t % 1000), 3) \o "Z"

\* Date.parse of a string: the ISO form read back, anything else is NaN
DateParse(s) ==
  IF /\ Len(s) = 24
     /\ SubSeq(s, 1, 17) = "1970-01-01T00:00:"
     /\ AllDigits(SubSeq(s, 18, 19))
     /\ Char(s, 20) = "."
     /\ AllDigits(SubSeq(s, 21, 23))
     /\ Char(s, 24) = "Z"
     /\ StringToNat(SubSeq(s, 18, 19)) < 60
  THEN 1000 * StringToNat(SubSeq(s, 18, 19)) + StringToNat(SubSeq(s, 21, 23))
  ELSE NaN

(***************************************************************************)
(* A date slot of a JSON object: a Date object, a string, null or absent.  *)
(***************************************************************************)
JDate(t) == [kind |-> "Date", t |-> t, s |-> ""]
JString(s) == [kind |-> "string", t |-> 0, s |-> s]
JNull == [kind |-> "null", t |-> 0, s |-> ""]
JUndefined == [kind |-> "undefined", t |-> 0, s |-> ""]

\* new Date(x)
NewDate(x) ==
  CASE x.kind = "Date" -> x.t
    [] x.kind = "string" -> DateParse(x.s)
    [] x.kind = "null" -> 0
    [] OTHER -> NaN

\* JSON.stringify of a Date: Date.prototype.toJSON gives null for an
\* Invalid Date and the ISO string otherwise
StringifyDate(x) ==
  CASE x.kind = "Date" -> IF IsValidDate(x.t) THEN JString(ToISOString(x.t)) ELSE JNull
    [] x.kind = "undefined" -> JUndefined
    [] OTHER -> x

(***************************************************************************)
(* Thrown values and the outcome of an operation on the heap.              *)
(***************************************************************************)
Error(msg) == [isError |-> TRUE, message |-> msg]
NonError(v) == [isError |-> FALSE, message |-> v]
NoThrow == [isError |-> FALSE, message |-> ""]

Ok(h, ref) == [ok |-> TRUE, h |-> h, ref |-> ref, thrown |-> NoThrow]
Throw(h, msg) == [ok |-> FALSE, h |-> h, ref |-> 0, thrown |-> Error(msg)]

(***************************************************************************)
(* The heap.                                                               *)
(***************************************************************************)
EmptyHeap ==
  [strArrays |-> <<>>, msgArrays |-> <<>>, messages |-> <<>>, conversations |-> <<>>]

\* a new array of strings with the given elements; its reference is
\* Len(h.strArrays) + 1
AllocStr(h, elems) == [h EXCEPT !.strArrays = Append(@, elems)]
AllocMsgs(h, elems) == [h EXCEPT !.msgArrays = Append(@, elems)]

MsgRefs(h) == 1..Len(h.messages)
ConvRefs(h) == 1..Len(h.conversations)

(***************************************************************************)
(* Message                                                                 *)
(***************************************************************************)
MaxContentLength == 2000

\* a variant of validateMessage that looks at the role before the content
validateMessageRoleFirst(props) ==
  IF Trim(props.id) = "" THEN Some("Message ID is required")
  ELSE IF props.role \notin {"user", "assistant"}
    THEN Some("Invalid message role. Must be \"user\" or \"assistant\"")
  ELSE IF Trim(props.content) = "" THEN Some("Message content cannot be empty")
  ELSE IF Len(props.content) > MaxContentLength
    THEN Some("Message too long. Please keep messages under 2000 characters.")
  ELSE IF ~IsSome(props.timestamp) THEN Some("Message timestamp is required")
  ELSE None

\* Message.validateMessage: the message of the first violated rule, or None
validateMessage(props) ==
  IF Trim(props.id) = "" THEN Some("Message ID is required")
  ELSE IF Trim(props.content) = "" THEN Some("Message content cannot be empty")
  ELSE IF Len(props.content) > MaxContentLength
    THEN Some("Message too long. Please keep messages under 2000 characters.")
  ELSE IF props.role \notin {"user", "assistant"}
    THEN Some("Invalid message role. Must be \"user\" or \"assistant\"")
  ELSE IF ~IsSome(props.timestamp) THEN Some("Message timestamp is required")
  ELSE None

\* new Message(props): this.props = { ...props }, a shallow copy
Message(h, props) ==
  IF IsSome(validateMessage(props)) THEN Throw(h, Get(validateMessage(props)))
  ELSE Ok([h EXCEPT !.messages = Append(@, props)], Len(h.messages) + 1)

\* the sequence getters: this.props.x || []
SequenceGetter(h, field) == IF IsSome(field) THEN h.strArrays[Get(field)] ELSE <<>>
spiritualThemes(h, m) == SequenceGetter(h, h.messages[m].spiritualThemes)
suggestedActions(h, m) == SequenceGetter(h, h.messages[m].suggestedActions)
relatedTopics(h, m) == SequenceGetter(h, h.messages[m].relatedTopics)

\* what the getters of a Message return
MessageView(h, m) ==
  [id |-> h.messages[m].id,
   role |-> h.messages[m].role,
   content |-> h.messages[m].content,
   timestamp |-> h.messages[m].timestamp,
   conversationId |-> h.messages[m].conversationId,
   spiritualThemes |-> spiritualThemes(h, m),
   suggestedActions |-> suggestedActions(h, m),
   relatedTopics |-> relatedTopics(h, m)]

\* Message.createUserMessage; rnd is Math.random().toString(36).substr(2, 9)
createUserMessage(h, content, conversationId, now, rnd) ==
  Message(h, [id |-> "user-" \o NatToString(now) \o "-" \o rnd,
              role |-> "user",
              content |-> Trim(content),
              timestamp |-> Some(now),
              conversationId |-> conversationId,
              spiritualThemes |-> None,
              suggestedActions |-> None,
              relatedTopics |-> None])

\* Message.createAssistantMessage
createAssistantMessage(h, content, conversationId, themes, actions, topics, now, rnd) ==
  Message(h, [id |-> "assistant-" \o NatToString(now) \o "-" \o rnd,
              role |-> "assistant",
              content |-> Trim(content),
              timestamp |-> Some(now),
              conversationId |-> conversationId,
              spiritualThemes |-> themes,
              suggestedActions |-> actions,
              relatedTopics |-> topics])

\* Message.toJSON: { ...this.props }, the arrays shared with the instance
MessageToJSON(h, m) ==
  [h.messages[m] EXCEPT !.timestamp = JDate(Get(@))]

\* Message.fromJSON: new Message({ ...json, timestamp: new Date(json.timestamp) })
MessageFromJSON(h, json) ==
  Message(h, [json EXCEPT !.timestamp = Some(NewDate(@))])

(***************************************************************************)
(* Conversation                                                            *)
(***************************************************************************)

\* Conversation.validateConversation: the message of the first violated
\* rule, or None
validateConversation(props) ==
  IF Trim(props.id) = "" THEN Some("Conversation ID is required")
  ELSE IF ~IsSome(props.messages) THEN Some("Messages must be an array")
  ELSE IF ~IsSome(props.createdAt) THEN Some("Conversation creation date is required")
  ELSE IF ~IsSome(props.updatedAt) THEN Some("Conversation update date is required")
  ELSE IF DateLess(Get(props.updatedAt), Get(props.createdAt))
    THEN Some("Update date cannot be before creation date")
  ELSE None

\* new Conversation(props): this.props = { ...props, messages: [...props.messages] }
Conversation(h, props) ==
  IF IsSome(validateConversation(props)) THEN Throw(h, Get(validateConversation(props)))
  ELSE LET h1 == AllocMsgs(h, h.msgArrays[Get(props.messages)])
           copy == Len(h1.msgArrays)
       IN Ok([h1 EXCEPT !.conversations = Append(@, [props EXCEPT !.messages = Some(copy)])],
             Len(h.conversations) + 1)

\* the elements of this.props.messages
messagesOf(h, c) == h.msgArrays[Get(h.conversations[c].messages)]

getMessageCount(h, c) == Len(messagesOf(h, c))

\* what the getters of a Conversation return
ConversationView(h, c) ==
  [id |-> h.conversations[c].id,
   messages |-> messagesOf(h, c),
   createdAt |-> h.conversations[c].createdAt,
   updatedAt |-> h.conversations[c].updatedAt,
   summary |-> h.conversations[c].summary,
   userId |-> h.conversations[c].userId]

\* message.conversationId && message.conversationId !== this.id
ConversationIdMismatch(h, c, m) ==
  /\ IsSome(h.messages[m].conversationId)
  /\ Get(h.messages[m].conversationId) # ""
  /\ Get(h.messages[m].conversationId) # h.conversations[c].id

\* a variant that pushes onto the receiver's own array
addMessageInPlace(h, c, m, now) ==
  IF ConversationIdMismatch(h, c, m)
  THEN Throw(h, "Message conversation ID does not match")
  ELSE LET stored == Get(h.conversations[c].messages)
           h1 == [h EXCEPT !.msgArrays[stored] = Append(@, m)]
       IN Conversation(h1, [h.conversations[c] EXCEPT !.updatedAt = Some(now)])

\* a variant without the conversationId check
addMessageUnchecked(h, c, m, now) ==
  LET h1 == AllocMsgs(h, Append(messagesOf(h, c), m))
      newMessages == Len(h1.msgArrays)
  IN Conversation(h1, [h.conversations[c] EXCEPT
                         !.messages = Some(newMessages),
                         !.updatedAt = Some(now)])

\* Conversation.addMessage
addMessage(h, c, m, now) ==
  IF ConversationIdMismatch(h, c, m)
  THEN Throw(h, "Message conversation ID does not match")
  ELSE LET h1 == AllocMsgs(h, Append(messagesOf(h, c), m))
           newMessages == Len(h1.msgArrays)
       IN Conversation(h1, [h.conversations[c] EXCEPT
                              !.messages = Some(newMessages),
                              !.updatedAt = Some(now)])

\* a variant that keeps the receiver's updatedAt
updateSummaryStale(h, c, summary, now) ==
  IF Trim(summary) = "" THEN Throw(h, "Summary cannot be empty")
  ELSE Conversation(h, [h.conversations[c] EXCEPT !.summary = Some(Trim(summary))])

\* Conversation.updateSummary
updateSummary(h, c, summary, now) ==
  IF Trim(summary) = "" THEN Throw(h, "Summary cannot be empty")
  ELSE Conversation(h, [h.conversations[c] EXCEPT
                          !.summary = Some(Trim(summary)),
                          !.updatedAt = Some(now)])

\* Conversation.createNew; new Date() and Date.now() are read back to back
\* and are one clock reading here
createNew(h, userId, now, rnd) ==
  LET h1 == AllocMsgs(h, <<>>)
  IN Conversation(h1, [id |-> "conv-" \o NatToString(now) \o "-" \o rnd,
                       messages |-> Some(Len(h1.msgArrays)),
                       createdAt |-> Some(now),
                       updatedAt |-> Some(now),
                       summary |-> None,
                       userId |-> userId])

\* Conversation.createWithFirstMessage: createNew reads the clock (now),
\* then addMessage reads it again (later)
createWithFirstMessage(h, m, userId, now, later, rnd) ==
  LET conversation == createNew(h, userId, now, rnd)
  IN IF conversation.ok THEN addMessage(conversation.h, conversation.ref, m, later)
     ELSE conversation

\* Conversation.toJSON: a new object, its messages a new array of the
\* messages' toJSON()
ConversationToJSON(h, c) ==
  [id |-> h.conversations[c].id,
   createdAt |-> JDate(Get(h.conversations[c].createdAt)),
   updatedAt |-> JDate(Get(h.conversations[c].updatedAt)),
   summary |-> h.conversations[c].summary,
   userId |-> h.conversations[c].userId,
   messages |-> [i \in 1..getMessageCount(h, c) |-> MessageToJSON(h, messagesOf(h, c)[i])]]

RECURSIVE MessagesFromJSON(_, _, _)
\* json.messages.map(msgData => Message.fromJSON(msgData)): the messages
\* built so far are acc; the first throw ends the map
MessagesFromJSON(h, jsons, acc) ==
  IF Len(jsons) = Len(acc) THEN Ok(AllocMsgs(h, acc), Len(h.msgArrays) + 1)
  ELSE LET r == MessageFromJSON(h, jsons[Len(acc) + 1])
       IN IF r.ok THEN MessagesFromJSON(r.h, jsons, Append(acc, r.ref)) ELSE r

\* Conversation.fromJSON
ConversationFromJSON(h, json) ==
  LET messages == MessagesFromJSON(h, json.messages, <<>>)
  IN IF ~messages.ok THEN messages
     ELSE Conversation(messages.h,
                       [id |-> json.id,
                        messages |-> Some(messages.ref),
                        createdAt |-> Some(NewDate(json.createdAt)),
                        updatedAt |-> Some(NewDate(json.updatedAt)),
                        summary |-> json.summary,
                        userId |-> json.userId])

(***************************************************************************)
(* JSON text.  JSON.stringify writes a deep copy in which a Date is its    *)
(* ISO string (null when invalid) and an array is its elements;            *)
(* JSON.parse builds new objects and new arrays from it.  The text is      *)
(* modelled by that deep copy.                                             *)
(***************************************************************************)
StringifyArray(h, field) == IF IsSome(field) THEN Some(h.strArrays[Get(field)]) ELSE None

\* JSON.stringify of a message's JSON object
StringifyMessage(h, json) ==
  [json EXCEPT !.timestamp = StringifyDate(@),
               !.spiritualThemes = StringifyArray(h, @),
               !.suggestedActions = StringifyArray(h, @),
               !.relatedTopics = StringifyArray(h, @)]

\* JSON.stringify of a conversation's JSON object
StringifyConversation(h, json) ==
  [json EXCEPT !.createdAt = StringifyDate(@),
               !.updatedAt = StringifyDate(@),
               !.messages = [i \in 1..Len(@) |-> StringifyMessage(h, @[i])]]

\* JSON.parse of one array slot: [h, field]
ParseArray(h, field) ==
  IF IsSome(field)
  THEN [h |-> AllocStr(h, Get(field)), field |-> Some(Len(h.strArrays) + 1)]
  ELSE [h |-> h, field |-> None]

\* JSON.parse of a message: [h, json]
ParseMessage(h, text) ==
  LET a == ParseArray(h, text.spiritualThemes)
      b == ParseArray(a.h, text.suggestedActions)
      c == ParseArray(b.h, text.relatedTopics)
  IN [h |-> c.h,
      json |-> [text EXCEPT !.spiritualThemes = a.field,
                            !.suggestedActions = b.field,
                            !.relatedTopics = c.field]]

RECURSIVE ParseMessages(_, _, _)
ParseMessages(h, texts, acc) ==
  IF Len(texts) = Len(acc) THEN [h |-> h, jsons |-> acc]
  ELSE LET r == ParseMessage(h, texts[Len(acc) + 1])
       IN ParseMessages(r.h, texts, Append(acc, r.json))

\* JSON.parse of a conversation: [h, json]
ParseConversation(h, text) ==
  LET r == ParseMessages(h, text.messages, <<>>)
  IN [h |-> r.h, json |-> [text EXCEPT !.messages = r.jsons]]

(***************************************************************************)
(* The entities under arbitrary use: code outside them builds arrays,      *)
(* passes them in, calls the constructors, factories, operations and       *)
(* getters at any clock reading, and mutates whatever array it can reach.  *)
(***************************************************************************)

\* the clock readings an operation can see; the clock is the wall clock,
\* which may be set back between two calls
Clock == Times

RandomSuffixes == {"k3x"}

UserIds == {Some("user-123")}

NoOperation ==
  [op |-> "none", ok |-> TRUE, thrown |-> NoThrow, recv |-> 0, arg |-> 0,
   res |-> 0, pre |-> None, now |-> 0, text |-> FALSE, summary |-> "", props |-> None]

\* the record of an operation op with outcome r, called on conversation
\* recv (0: none) with message arg (0: none) at clock reading now
Operation(op, r, recv, arg, now, text) ==
  [op |-> op, ok |-> r.ok, thrown |-> r.thrown, recv |-> recv, arg |-> arg,
   res |-> r.ref,
   pre |-> IF recv > 0 THEN Some(ConversationView(heap, recv)) ELSE None,
   now |-> now, text |-> text, summary |-> "", props |-> None]

Idle == [pc |-> "idle"]

\* no AiRepository in use
NoRepository == [available |-> FALSE]

\* no screen component in use
NoInterface == [screen |-> "none"]

\* the bound on the Conversation instances: an operation is called while
\* there is room for one more instance, and its result fits
CanConstruct(r) ==
  /\ Len(heap.conversations) < MaxConversations
  /\ r.ok => Len(r.h.conversations) <= MaxConversations

\* an entity operation with outcome r takes effect; what a call that throws
\* had allocated is unreachable and is dropped
Perform(op, r, recv, arg, now, text) ==
  /\ CanConstruct(r)
  /\ heap' = IF r.ok THEN r.h ELSE heap
  /\ last' = Operation(op, r, recv, arg, now, text)
  /\ UNCHANGED <<ui, repo, held, uc>>

\* outside code writes an array literal of strings
CallerCreatesArray ==
  /\ Cardinality(held.str) < MaxHeld
  /\ \E elems \in {<<>>, <<"inner_peace">>} :
       /\ heap' = AllocStr(heap, elems)
       /\ held' = [held EXCEPT !.str = @ \cup {Len(heap.strArrays) + 1}]
  /\ UNCHANGED <<ui, repo, last, uc>>

\* outside code writes an array literal of messages
CallerCreatesMessageArray ==
  /\ Cardinality(held.msg) < MaxHeld
  /\ \E elems \in {<<>>} \cup {<<m>> : m \in MsgRefs(heap)} :
       /\ heap' = AllocMsgs(heap, elems)
       /\ held' = [held EXCEPT !.msg = @ \cup {Len(heap.msgArrays) + 1}]
  /\ UNCHANGED <<ui, repo, last, uc>>

\* outside code pushes onto an array it can reach
CallerMutatesArray ==
  /\ \E a \in held.str :
       /\ Len(heap.strArrays[a]) < MaxArrayLength
       /\ heap' = [heap EXCEPT !.strArrays[a] = Append(@, "pushed")]
  /\ UNCHANGED <<ui, repo, held, last, uc>>

CallerMutatesMessageArray ==
  /\ \E a \in held.msg, m \in MsgRefs(heap) :
       /\ Len(heap.msgArrays[a]) < MaxArrayLength
       /\ heap' = [heap EXCEPT !.msgArrays[a] = Append(@, m)]
  /\ UNCHANGED <<ui, repo, held, last, uc>>

\* outside code reads conversation.messages: [...this.props.messages]
ReadMessages ==
  /\ Cardinality(held.msg) < MaxHeld
  /\ \E c \in ConvRefs(heap) :
       /\ heap' = AllocMsgs(heap, messagesOf(heap, c))
       /\ held' = [held EXCEPT !.msg = @ \cup {Len(heap.msgArrays) + 1}]
  /\ UNCHANGED <<ui, repo, last, uc>>

(***************************************************************************)
(* Conversations over a fixed pool of messages.                            *)
(***************************************************************************)
PoolProps(id, conversationId) ==
  [id |-> id, role |-> "user", content |-> "Hello", timestamp |-> Some(0),
   conversationId |-> conversationId, spiritualThemes |-> None,
   suggestedActions |-> None, relatedTopics |-> None]

\* four messages: conversationId unset, empty, "c1" and "c2"
MessagePool ==
  LET m1 == Message(EmptyHeap, PoolProps("m1", None))
      m2 == Message(m1.h, PoolProps("m2", Some("")))
      m3 == Message(m2.h, PoolProps("m3", Some("c1")))
      m4 == Message(m3.h, PoolProps("m4", Some("c2")))
  IN m4.h

\* the props the outside code passes to new Conversation
ConversationPropsSamples ==
  LET base == [id |-> "c1", messages |-> None, createdAt |-> Some(0),
               updatedAt |-> Some(0), summary |-> None, userId |-> None]
  IN {[base EXCEPT !.messages = Some(a), !.createdAt = Some(t)] :
         a \in held.msg, t \in Times \cup {NaN}}
     \cup {[base EXCEPT !.messages = Some(a), !.id = " "] : a \in held.msg}
     \cup {[base EXCEPT !.messages = Some(a), !.updatedAt = None] : a \in held.msg}
     \cup {[base EXCEPT !.messages = Some(a), !.createdAt = None] : a \in held.msg}
     \cup {base}

\* the JSON objects that stored or foreign data can hold
ConversationJSONSamples ==
  LET message == [id |-> "m9", role |-> "user", content |-> "Stored",
                  timestamp |-> JString(ToISOString(1)),
                  conversationId |-> Some("c2"),
                  spiritualThemes |-> None, suggestedActions |-> None,
                  relatedTopics |-> None]
      base == [id |-> "c1", createdAt |-> JString(ToISOString(1)),
               updatedAt |-> JString(ToISOString(2)), summary |-> None,
               userId |-> None, messages |-> <<>>]
  IN {base,
      [base EXCEPT !.messages = <<message>>],
      [base EXCEPT !.createdAt = JString(ToISOString(3))],
      [base EXCEPT !.createdAt = JString("yesterday")],
      [base EXCEPT !.updatedAt = JUndefined]}

NewConversation ==
  /\ \E props \in ConversationPropsSamples :
       Perform("new Conversation", Conversation(heap, props), 0, 0, 0, FALSE)

CreateNew ==
  /\ \E userId \in UserIds, now \in Clock, rnd \in RandomSuffixes :
       Perform("createNew", createNew(heap, userId, now, rnd), 0, 0, now, FALSE)

CreateWithFirstMessage ==
  \E m \in MsgRefs(heap), now \in Clock, later \in Clock, rnd \in RandomSuffixes :
    Perform("createWithFirstMessage",
            createWithFirstMessage(heap, m, None, now, later, rnd), 0, m, later, FALSE)

AddMessage ==
  /\ \E c \in ConvRefs(heap), m \in MsgRefs(heap), now \in Clock :
       Perform("addMessage", addMessage(heap, c, m, now), c, m, now, FALSE)

UpdateSummary ==
  \E c \in ConvRefs(heap), summary \in {" A summary ", " "}, now \in Clock :
    LET r == updateSummary(heap, c, summary, now)
    IN /\ CanConstruct(r)
       /\ heap' = IF r.ok THEN r.h ELSE heap
       /\ last' = [Operation("updateSummary", r, c, 0, now, FALSE)
                     EXCEPT !.summary = summary]
       /\ UNCHANGED <<ui, repo, held, uc>>

\* Conversation.fromJSON on data that did not come from toJSON
ConversationFromJSONCall ==
  /\ \E json \in ConversationJSONSamples :
       Perform("Conversation.fromJSON", ConversationFromJSON(heap, json), 0, 0, 0, TRUE)

InitConversation ==
  /\ heap = MessagePool
  /\ held = [str |-> {}, msg |-> {}]
  /\ last = NoOperation
  /\ uc = Idle
  /\ repo = NoRepository
  /\ ui = NoInterface

NextConversation ==
  \/ CallerCreatesMessageArray
  \/ CallerMutatesMessageArray
  \/ ReadMessages
  \/ NewConversation
  \/ CreateNew
  \/ CreateWithFirstMessage
  \/ AddMessage
  \/ UpdateSummary
  \/ ConversationFromJSONCall

SpecConversation == InitConversation /\ [][NextConversation]_vars

(***************************************************************************)
(* Messages and conversations whose arrays the outside code can reach.     *)
(***************************************************************************)
\* the props the outside code passes to new Message
MessagePropsSamples ==
  LET base == [id |-> "m1", role |-> "user", content |-> "Hello",
               timestamp |-> Some(0), conversationId |-> None,
               spiritualThemes |-> None, suggestedActions |-> None,
               relatedTopics |-> None]
  IN {base, [base EXCEPT !.content = "  "], [base EXCEPT !.timestamp = None]}
     \cup {[base EXCEPT !.id = id, !.content = content] :
             id \in {"", " \t"},
             content \in {"Hello", "", Repeat("a", MaxContentLength + 1)}}
     \cup {[base EXCEPT !.content = content, !.role = role] :
             content \in {"", Repeat(" ", MaxContentLength + 1),
                          Repeat("a", MaxContentLength), Repeat("a", MaxContentLength + 1),
                          " " \o Repeat("a", MaxContentLength)},
             role \in {"assistant", "system"}}
     \cup {[base EXCEPT !.role = role, !.timestamp = timestamp,
                        !.conversationId = conversationId] :
             role \in {"assistant", "User", ""},
             timestamp \in {None, Some(NaN)},
             conversationId \in {Some("c1")}}
     \cup {[base EXCEPT !.spiritualThemes = Some(a)] : a \in held.str}
     \cup {[base EXCEPT !.suggestedActions = Some(a), !.relatedTopics = Some(a)] :
             a \in held.str}

\* an operation on messages with outcome r takes effect, while there is
\* room for one more Message instance
PerformOnMessage(op, r, arg, now, text) ==
  /\ Len(heap.messages) < MaxMessages
  /\ heap' = IF r.ok THEN r.h ELSE heap
  /\ last' = Operation(op, r, 0, arg, now, text)
  /\ UNCHANGED <<ui, repo, held, uc>>

\* new Message(props), with the props kept for the record
NewMessage ==
  \E props \in MessagePropsSamples :
    LET r == Message(heap, props)
    IN /\ Len(heap.messages) < MaxMessages
       /\ heap' = IF r.ok THEN r.h ELSE heap
       /\ last' = [Operation("new Message", r, 0, 0, 0, FALSE) EXCEPT !.props = Some(props)]
       /\ UNCHANGED <<ui, repo, held, uc>>

CreateUserMessage ==
  \E content \in {" Hi "}, now \in Clock, rnd \in RandomSuffixes :
    PerformOnMessage("createUserMessage",
                     createUserMessage(heap, content, None, now, rnd), 0, now, FALSE)

\* the optional arrays are left out or are arrays the caller holds
CreateAssistantMessage ==
  \E themes \in {None} \cup {Some(a) : a \in held.str},
     now \in Clock, rnd \in RandomSuffixes :
    PerformOnMessage("createAssistantMessage",
                     createAssistantMessage(heap, " Peace ", Some("c1"), themes,
                                            None, themes, now, rnd),
                     0, now, FALSE)

\* the themes are an array literal written in the call
CreateAssistantMessageFromLiteral ==
  \E now \in Clock, rnd \in RandomSuffixes :
    LET h1 == AllocStr(heap, <<"inner_peace">>)
    IN PerformOnMessage("createAssistantMessage",
                        createAssistantMessage(h1, " Peace ", None,
                                               Some(Len(h1.strArrays)), None, None,
                                               now, rnd),
                        0, now, FALSE)

\* the arrays a message's props refer to
ArraysOf(h, m) ==
  {Get(f) : f \in {g \in {h.messages[m].spiritualThemes,
                          h.messages[m].suggestedActions,
                          h.messages[m].relatedTopics} : IsSome(g)}}

\* outside code reads message.spiritualThemes, .suggestedActions or
\* .relatedTopics: a stored array is returned as it is (an absent one reads
\* as a new empty array that nothing else refers to)
ReadSequence ==
  /\ \E m \in MsgRefs(heap) : \E a \in ArraysOf(heap, m) :
       held' = [held EXCEPT !.str = @ \cup {a}]
  /\ UNCHANGED <<ui, repo, heap, last, uc>>

\* outside code calls message.toJSON(): the object's arrays are the
\* instance's
MessageToJSONCall ==
  /\ \E m \in MsgRefs(heap) :
       held' = [held EXCEPT !.str = @ \cup ArraysOf(heap, m)]
  /\ UNCHANGED <<ui, repo, heap, last, uc>>

InitAliasing ==
  /\ heap = EmptyHeap
  /\ held = [str |-> {}, msg |-> {}]
  /\ last = NoOperation
  /\ uc = Idle
  /\ repo = NoRepository
  /\ ui = NoInterface

NextAliasing ==
  \/ CallerCreatesArray
  \/ CallerMutatesArray
  \/ NewMessage
  \/ CreateUserMessage
  \/ CreateAssistantMessage
  \/ CreateAssistantMessageFromLiteral
  \/ ReadSequence
  \/ MessageToJSONCall

SpecAliasing == InitAliasing /\ [][NextAliasing]_vars

(***************************************************************************)
(* Serialization round trips.                                              *)
(***************************************************************************)
\* time values whose ISO form exercises the millisecond and second digits
SampleTimes == {0, 7, 999, 1000, 59999}

\* Message.fromJSON(m.toJSON()), directly or with the JSON object written
\* to text and parsed back in between
MessageRoundTrip(h, m, text) ==
  IF text
  THEN LET parsed == ParseMessage(h, StringifyMessage(h, MessageToJSON(h, m)))
       IN MessageFromJSON(parsed.h, parsed.json)
  ELSE MessageFromJSON(h, MessageToJSON(h, m))

\* Conversation.fromJSON(c.toJSON()), directly or through the text that
\* saveConversation stores and loadConversation parses
ConversationRoundTrip(h, c, text) ==
  IF text
  THEN LET parsed == ParseConversation(h, StringifyConversation(h, ConversationToJSON(h, c)))
       IN ConversationFromJSON(parsed.h, parsed.json)
  ELSE ConversationFromJSON(h, ConversationToJSON(h, c))

\* a heap with two messages and a conversation that holds them
RoundTripPool(themes, topics, timestamp, conversationId, summary, createdAt, updatedAt) ==
  LET h1 == IF IsSome(themes) THEN AllocStr(EmptyHeap, Get(themes)) ELSE EmptyHeap
      a == IF IsSome(themes) THEN Some(Len(h1.strArrays)) ELSE None
      h2 == IF IsSome(topics) THEN AllocStr(h1, Get(topics)) ELSE h1
      b == IF IsSome(topics) THEN Some(Len(h2.strArrays)) ELSE None
      m1 == createAssistantMessage(h2, "Find peace within", conversationId, a, None, b,
                                   0, "k3x")
      m2 == Message(m1.h, [id |-> "m2", role |-> "user", content |-> "Hello",
                           timestamp |-> Some(timestamp),
                           conversationId |-> conversationId,
                           spiritualThemes |-> None, suggestedActions |-> None,
                           relatedTopics |-> None])
      h3 == AllocMsgs(m2.h, <<m2.ref, m1.ref>>)
  IN Conversation(h3, [id |-> "c1", messages |-> Some(Len(h3.msgArrays)),
                       createdAt |-> Some(createdAt), updatedAt |-> Some(updatedAt),
                       summary |-> summary, userId |-> Some("user-123")]).h

InitRoundTrip ==
  /\ \E themes \in {None, Some(<<>>), Some(<<"inner_peace", "growth">>)},
        topics \in {None, Some(<<"meditation">>)},
        timestamp \in SampleTimes \cup {NaN},
        conversationId \in {None, Some("c1")},
        summary \in {None, Some("A summary")},
        createdAt \in {0, 999, NaN},
        updatedAt \in {1000, 59999} :
       heap = RoundTripPool(themes, topics, timestamp, conversationId, summary,
                            createdAt, updatedAt)
  /\ held = [str |-> {}, msg |-> {}]
  /\ last = NoOperation
  /\ uc = Idle
  /\ repo = NoRepository
  /\ ui = NoInterface

\* a message is serialized and read back, while there is room for a copy
\* of each message
RoundTripMessage ==
  /\ Len(heap.messages) < 2 * MaxMessages
  /\ \E m \in MsgRefs(heap), text \in BOOLEAN :
       LET r == MessageRoundTrip(heap, m, text)
       IN /\ heap' = IF r.ok THEN r.h ELSE heap
          /\ last' = Operation("Message.roundTrip", r, 0, m, 0, text)
  /\ UNCHANGED <<ui, repo, held, uc>>

RoundTripConversation ==
  \E c \in ConvRefs(heap), text \in BOOLEAN :
    Perform("Conversation.roundTrip", ConversationRoundTrip(heap, c, text), c, 0, 0, text)

NextRoundTrip ==
  \/ RoundTripMessage
  \/ RoundTripConversation

SpecRoundTrip == InitRoundTrip /\ [][NextRoundTrip]_vars

(***************************************************************************)
(* Properties of Conversation.                                             *)
(***************************************************************************)
\* the last operation was a call of op on an existing conversation
Called(op) == last.op = op /\ last.recv \in ConvRefs(heap)

\* what the receiver of the last operation returned before the call
Before == Get(last.pre)

\* conversationId is unset: undefined, or the empty string that the check
\* `message.conversationId && ...` lets through
Unset(conversationId) == conversationId = None \/ conversationId = Some("")

\* every message of the view has conversationId unset or equal to the id
Matching(h, view) ==
  \A i \in 1..Len(view.messages) :
    \/ Unset(h.messages[view.messages[i]].conversationId)
    \/ h.messages[view.messages[i]].conversationId = Some(view.id)

\* C5: addMessage is append-only and non-mutating: after
\* updated = original.addMessage(m), original's messages, count, summary
\* and updatedAt are what they were, updated is another instance with the
\* same id, and updated.messages is original.messages followed by m.
C5_AddMessageAppendOnly ==
  (Called("addMessage") /\ last.ok) =>
    LET original == ConversationView(heap, last.recv)
        updated == ConversationView(heap, last.res)
    IN /\ original.messages = Before.messages
       /\ getMessageCount(heap, last.recv) = Len(Before.messages)
       /\ original.summary = Before.summary
       /\ original.updatedAt = Before.updatedAt
       /\ last.res # last.recv
       /\ updated.id = original.id
       /\ updated.messages = Append(Before.messages, last.arg)
       /\ getMessageCount(heap, last.res) = Len(Before.messages) + 1

\* addMessage has returned from a conversation that already held a message
C5_Witness ==
  /\ Called("addMessage")
  /\ last.ok
  /\ Len(Before.messages) >= 1
  /\ getMessageCount(heap, last.res) = Len(Before.messages) + 1

\* C6 as stated: in every Conversation instance each contained message has
\* conversationId unset or equal to the conversation's id.
C6_EveryInstanceMatches ==
  \A c \in ConvRefs(heap) : Matching(heap, ConversationView(heap, c))

\* C6, amended: addMessage and updateSummary keep the property (their result
\* holds only matching messages when the receiver did), createNew and
\* createWithFirstMessage establish it, and addMessage throws 'Message
\* conversation ID does not match' exactly when the message's
\* conversationId is a non-empty string other than the conversation's id.
C6_AddMessageKeepsMatching ==
  /\ (last.op \in {"createNew", "createWithFirstMessage"} /\ last.ok) =>
        Matching(heap, ConversationView(heap, last.res))
  /\ (last.op \in {"addMessage", "updateSummary"} /\ last.ok /\ Matching(heap, Before)) =>
        Matching(heap, ConversationView(heap, last.res))
  /\ Called("addMessage") =>
       LET conversationId == heap.messages[last.arg].conversationId
       IN (~last.ok /\ last.thrown = Error("Message conversation ID does not match"))
            <=> (~Unset(conversationId) /\ conversationId # Some(Before.id))

\* addMessage has thrown for the mismatching message while the heap holds a
\* conversation with a message that names it
C6_Witness ==
  /\ Called("addMessage")
  /\ ~last.ok
  /\ last.thrown = Error("Message conversation ID does not match")
  /\ \E c \in ConvRefs(heap) :
       \E i \in 1..getMessageCount(heap, c) :
         heap.messages[messagesOf(heap, c)[i]].conversationId
           = Some(heap.conversations[c].id)

\* C7 as stated: every Conversation instance satisfies
\* updatedAt >= createdAt.
C7_UpdatedAtNotBeforeCreatedAt ==
  \A c \in ConvRefs(heap) :
    DateGeq(Get(heap.conversations[c].updatedAt), Get(heap.conversations[c].createdAt))

\* what the ordering check does guarantee: no instance has
\* updatedAt < createdAt
UpdatedAtNeverLess ==
  \A c \in ConvRefs(heap) :
    ~DateLess(Get(heap.conversations[c].updatedAt), Get(heap.conversations[c].createdAt))

\* C8 as stated: at every clock reading addMessage (conversationId unset or
\* equal) and updateSummary (non-empty after trim) return a new Conversation
\* whose updatedAt is the current time.
C8_RefreshedAtEveryClockReading ==
  /\ (Called("addMessage") /\ ~ConversationIdMismatch(heap, last.recv, last.arg)) =>
        (last.ok /\ ConversationView(heap, last.res).updatedAt = Some(last.now))
  /\ (Called("updateSummary") /\ Trim(last.summary) # "") =>
        (last.ok /\ ConversationView(heap, last.res).updatedAt = Some(last.now))

\* the call of the last operation met its precondition on the argument
ArgumentAccepted ==
  \/ Called("addMessage") /\ ~ConversationIdMismatch(heap, last.recv, last.arg)
  \/ Called("updateSummary") /\ Trim(last.summary) # ""

\* C8, amended: at a clock reading that is not before the receiver's
\* createdAt, addMessage and updateSummary return a new Conversation with
\* updatedAt the current time and the receiver's createdAt, id and userId;
\* at an earlier reading they throw 'Update date cannot be before creation
\* date'; either way the receiver is not modified.
C8_RefreshedUnlessClockBeforeCreation ==
  ArgumentAccepted =>
    /\ ConversationView(heap, last.recv) = Before
    /\ IF DateLess(last.now, Get(Before.createdAt))
       THEN /\ ~last.ok
            /\ last.thrown = Error("Update date cannot be before creation date")
       ELSE /\ last.ok
            /\ last.res # last.recv
            /\ ConversationView(heap, last.res).updatedAt = Some(last.now)
            /\ ConversationView(heap, last.res).createdAt = Before.createdAt
            /\ ConversationView(heap, last.res).id = Before.id
            /\ ConversationView(heap, last.res).userId = Before.userId

\* updateSummary has returned a conversation with another updatedAt than
\* its receiver's
C8_Witness ==
  /\ Called("updateSummary")
  /\ last.ok
  /\ Before.updatedAt # Some(last.now)
  /\ ConversationView(heap, last.res).updatedAt = Some(last.now)

(***************************************************************************)
(* Properties of the sequence fields and of serialization.                 *)
(***************************************************************************)
\* C9 as stated: sequence fields are never aliased, so no step of the
\* outside code (mutating an array it passed in or was handed by a getter or
\* by toJSON) changes what an existing Message or Conversation returns.
C9_NeverAliased ==
  [][/\ \A m \in MsgRefs(heap) : MessageView(heap', m) = MessageView(heap, m)
     /\ \A c \in ConvRefs(heap) : ConversationView(heap', c) = ConversationView(heap, c)]_vars

\* the half of it that Conversation keeps: its messages array is copied on
\* the way in and on the way out
ConversationMessagesNeverAliased ==
  [][\A c \in ConvRefs(heap) : ConversationView(heap', c) = ConversationView(heap, c)]_vars

\* what a conversation returns, its messages read through their getters
DeepView(h, c) ==
  [ConversationView(h, c) EXCEPT
     !.messages = [i \in 1..Len(@) |-> MessageView(h, @[i])]]

\* every date of the conversation and of its messages is a point in time
ValidDates(h, c) ==
  /\ IsValidDate(Get(h.conversations[c].createdAt))
  /\ IsValidDate(Get(h.conversations[c].updatedAt))
  /\ \A i \in 1..getMessageCount(h, c) :
       IsValidDate(Get(h.messages[messagesOf(h, c)[i]].timestamp))

\* C10: serialization round-trips.  For a message whose timestamp is a
\* point in time, Message.fromJSON(m.toJSON()) is another instance that
\* returns the same id, role, content, conversationId, themes, actions,
\* topics and timestamp; for a conversation whose dates are points in time,
\* Conversation.fromJSON(c.toJSON()) returns the same id, summary, userId,
\* createdAt, updatedAt and the same messages in the same order; both also
\* when the JSON goes through its text with dates as ISO strings.
C10_RoundTrip ==
  /\ (last.op = "Message.roundTrip"
        /\ IsValidDate(Get(heap.messages[last.arg].timestamp))) =>
       /\ last.ok
       /\ last.res # last.arg
       /\ MessageView(heap, last.res) = MessageView(heap, last.arg)
  /\ (last.op = "Conversation.roundTrip" /\ ValidDates(heap, last.recv)) =>
       /\ last.ok
       /\ last.res # last.recv
       /\ DeepView(heap, last.res) = DeepView(heap, last.recv)

\* a conversation with two messages, themes and a createdAt with
\* milliseconds has come back from its text
C10_Witness ==
  /\ last.op = "Conversation.roundTrip"
  /\ last.text
  /\ last.ok
  /\ ValidDates(heap, last.recv)
  /\ heap.conversations[last.res].createdAt = Some(999)
  /\ getMessageCount(heap, last.res) = 2
  /\ \E i \in 1..2 :
       /\ Len(spiritualThemes(heap, messagesOf(heap, last.res)[i])) = 2
       /\ messagesOf(heap, last.res)[i] # messagesOf(heap, last.recv)[i]

(***************************************************************************)
(* The use cases.  One invocation of execute runs at a time: uc holds      *)
(* where it stands, the repository calls it has made, and what it          *)
(* returned.  The repository is the environment: the call awaited resolves *)
(* or rejects.                                                             *)
(***************************************************************************)
\* the result objects: { success: true, <payload> } and
\* { success: false, error } (isSuccess for the auth use cases)
Success(payload) == [success |-> TRUE, payload |-> Some(payload), error |-> None]
Failure(message) == [success |-> FALSE, payload |-> None, error |-> Some(message)]

\* no invocation yet
NoInvocation ==
  [pc |-> "idle", useCase |-> "", request |-> None, now |-> 0, lenient |-> FALSE,
   calls |-> <<>>, pending |-> "", validation |-> FALSE, result |-> None,
   escaped |-> None, conversation |-> 0, userMessage |-> 0, assistantMessage |-> 0,
   settled |-> <<>>, previous |-> None, tokens |-> None, sent |-> None,
   http |-> None]

\* execute returns result, from the branch `if (validationError)` or not
Returned(u, result, validation) ==
  [u EXCEPT !.pc = "done", !.pending = "", !.result = Some(result),
            !.validation = validation]

\* execute calls the repository method and awaits it
Awaiting(u, method) ==
  [u EXCEPT !.pc = "awaiting", !.pending = method, !.calls = Append(@, method)]

\* execute calls the repository method with the argument and awaits it
AwaitingWith(u, method, argument) ==
  [Awaiting(u, method) EXCEPT !.sent = Some(argument)]

\* the promise of execute rejects with the thrown value
Escaped(u, thrown) ==
  [u EXCEPT !.pc = "done", !.pending = "", !.escaped = Some(thrown)]

\* the awaited call has settled: what it resolved to or rejected with
Settled(u, how, value) ==
  [u EXCEPT !.settled = Append(@, [call |-> u.pending, how |-> how, value |-> value])]

(***************************************************************************)
(* LoadConversations                                                       *)
(***************************************************************************)
MaxLimit == 100

\* a limit is a number of halves: Half(3) is 1.5
Half(k) == [halves |-> k]
IsInteger(n) == n.halves % 2 = 0

\* a validateRequest that lets a limit of 0 through
LoadConversationsValidateRequestFromZero(request) ==
  IF IsSome(request.limit)
  THEN IF ~IsInteger(Get(request.limit)) \/ Get(request.limit).halves < 0
       THEN Some("Limit must be a positive integer")
       ELSE IF Get(request.limit).halves > 2 * MaxLimit
       THEN Some("Limit cannot exceed 100 conversations")
       ELSE None
  ELSE None

\* LoadConversations.validateRequest
LoadConversationsValidateRequest(request) ==
  IF IsSome(request.limit)
  THEN IF ~IsInteger(Get(request.limit)) \/ Get(request.limit).halves < 2 * 1
       THEN Some("Limit must be a positive integer")
       ELSE IF Get(request.limit).halves > 2 * MaxLimit
       THEN Some("Limit cannot exceed 100 conversations")
       ELSE None
  ELSE None

\* LoadConversations.handleError
LoadConversationsHandleError(error) ==
  IF error.isError
  THEN IF Includes(error.message, "Failed to load conversations")
       THEN "Failed to load conversations. Please try again."
       ELSE error.message
  ELSE "An unexpected error occurred while loading conversations."

\* a variant that asks the repository before it validates
LoadConversationsExecuteEager(u) ==
  LET validationError == LoadConversationsValidateRequest(Get(u.request))
      called == Awaiting(u, "loadConversations")
  IN IF IsSome(validationError)
     THEN Returned(called, Failure(Get(validationError)), TRUE)
     ELSE called

\* LoadConversations.execute up to its first await
LoadConversationsExecute(u) ==
  LET validationError == LoadConversationsValidateRequest(Get(u.request))
  IN IF IsSome(validationError)
     THEN Returned(u, Failure(Get(validationError)), TRUE)
     ELSE AwaitingWith(u, "loadConversations", Get(u.request).limit)

\* ... and after loadConversations has resolved or rejected
LoadConversationsResolved(u, conversations) ==
  Returned(u, Success(conversations), FALSE)

LoadConversationsRejected(u, error) ==
  Returned(u, Failure(LoadConversationsHandleError(error)), FALSE)

(***************************************************************************)
(* LoginUser and RegisterUser                                              *)
(***************************************************************************)
MinPasswordLength == 8

Uppercase == "ABCDEFGHIJKLMNOPQRSTUVWXYZ"
Special == "!@#$%^&*(),.?\":{}|<>~`-_+=[]\\;'"

\* the string has a character of the class
HasCharOf(s, class) ==
  \E i \in 1..Len(s) : \E j \in 1..Len(class) : Char(s, i) = Char(class, j)

\* /^[^\s@]+@[^\s@]+\.[^\s@]+$/.test(s): one @, no white space, and a dot
\* after the @ with a character on either side
EmailRegexTest(s) ==
  \E at \in 2..Len(s) :
    /\ Char(s, at) = "@"
    /\ \A i \in 1..Len(s) : ~IsSpace(Char(s, i)) /\ (Char(s, i) = "@" => i = at)
    /\ \E dot \in (at + 2)..(Len(s) - 1) : Char(s, dot) = "."

\* the checks LoginUser.execute makes before it calls the repository: the
\* message of the first that fails, or None
LoginUserValidate(credentials) ==
  IF ~EmailRegexTest(credentials.email) THEN Some("Invalid email format")
  ELSE IF Len(credentials.password) < MinPasswordLength
    THEN Some("Password must be at least 8 characters long")
  ELSE IF ~HasCharOf(credentials.password, Uppercase)
    THEN Some("Password must contain at least one uppercase letter")
  ELSE IF ~HasCharOf(credentials.password, Special)
    THEN Some("Password must contain at least one special character")
  ELSE None

\* a variant that calls storeTokens without waiting for login to settle
LoginUserExecuteParallel(u) ==
  LET validationError == LoginUserValidate(Get(u.request))
  IN IF IsSome(validationError)
     THEN Returned(u, Failure(Get(validationError)), TRUE)
     ELSE Awaiting(Awaiting(u, "login"), "storeTokens")

\* LoginUser.execute up to its first await
LoginUserExecute(u) ==
  LET validationError == LoginUserValidate(Get(u.request))
  IN IF IsSome(validationError)
     THEN Returned(u, Failure(Get(validationError)), TRUE)
     ELSE Awaiting(u, "login")

\* a variant of the catch block that surfaces the message of an Error
LoginUserCatchRaw(error) ==
  IF error.isError THEN error.message ELSE "Login failed. Please try again."

\* the catch block of LoginUser.execute
LoginUserCatch(error) ==
  IF error.isError /\ error.message = "Invalid credentials"
  THEN "Invalid credentials"
  ELSE "Login failed. Please try again."

\* this.authRepository.storeTokens(tokens) is called and awaited
StoreTokens(u, tokens) ==
  [Awaiting(u, "storeTokens") EXCEPT !.tokens = Some(tokens)]

\* a variant of LoginUser.execute that returns without storing the tokens
LoginUserResolvedUnstored(u, value) ==
  Returned(u, Success(u.settled[1].value), FALSE)

\* after login has resolved with { user, tokens }: storeTokens(result.tokens),
\* and after that has resolved: the success result
LoginUserResolved(u, value) ==
  IF u.pending = "login"
  THEN StoreTokens(u, value.tokens)
  ELSE Returned(u, Success(u.settled[1].value), FALSE)

\* a variant that lets the error through
LoginUserRejectedRethrown(u, error) == Escaped(u, error)

\* ... or rejected: the catch block
LoginUserRejected(u, error) ==
  Returned(u, Failure(LoginUserCatch(error)), FALSE)

\* a variant that looks for the uppercase letter before it measures the
\* password
RegisterUserValidateReordered(data) ==
  IF ~EmailRegexTest(data.email) THEN Some("Invalid email format")
  ELSE IF ~HasCharOf(data.password, Uppercase)
    THEN Some("Password must contain at least one uppercase letter")
  ELSE IF Len(data.password) < MinPasswordLength
    THEN Some("Password must be at least 8 characters long")
  ELSE IF ~HasCharOf(data.password, Special)
    THEN Some("Password must contain at least one special character")
  ELSE IF Trim(data.firstName) = "" THEN Some("First name is required")
  ELSE IF Trim(data.lastName) = "" THEN Some("Last name is required")
  ELSE None

\* the checks RegisterUser.execute makes before it calls the repository
RegisterUserValidate(data) ==
  IF ~EmailRegexTest(data.email) THEN Some("Invalid email format")
  ELSE IF Len(data.password) < MinPasswordLength
    THEN Some("Password must be at least 8 characters long")
  ELSE IF ~HasCharOf(data.password, Uppercase)
    THEN Some("Password must contain at least one uppercase letter")
  ELSE IF ~HasCharOf(data.password, Special)
    THEN Some("Password must contain at least one special character")
  ELSE IF Trim(data.firstName) = "" THEN Some("First name is required")
  ELSE IF Trim(data.lastName) = "" THEN Some("Last name is required")
  ELSE None

\* RegisterUser.execute up to its first await
RegisterUserExecute(u) ==
  LET validationError == RegisterUserValidate(Get(u.request))
  IN IF IsSome(validationError)
     THEN Returned(u, Failure(Get(validationError)), TRUE)
     ELSE Awaiting(u, "register")

\* a variant of the catch block that hides every message but the literal one
RegisterUserCatchGeneric(error) ==
  IF error.isError /\ error.message = "User already exists" THEN "User already exists"
  ELSE "Registration failed. Please try again."

\* the catch block of RegisterUser.execute
RegisterUserCatch(error) ==
  IF error.isError /\ error.message = "User already exists" THEN "User already exists"
  ELSE IF error.isError THEN error.message
  ELSE "Registration failed. Please try again."

\* after register has resolved: storeTokens(result.tokens), and after that
\* has resolved: the success result
RegisterUserResolved(u, value) ==
  IF u.pending = "register"
  THEN StoreTokens(u, value.tokens)
  ELSE Returned(u, Success(u.settled[1].value), FALSE)

RegisterUserRejected(u, error) ==
  Returned(u, Failure(RegisterUserCatch(error)), FALSE)

(***************************************************************************)
(* RequestSpiritualGuidance                                                *)
(***************************************************************************)
ExperienceLevels == {"beginner", "intermediate", "advanced"}

MaxTopicLength == 200
MaxGoals == 10
MaxChallenges == 10
MaxPractices == 15
MaxExperiences == 20
MaxGoalLength == 100
MaxChallengeLength == 100
MaxPracticeLength == 50
MaxExperienceLength == 200
MaxTimeAvailableLength == 50

\* validateStringArray: the message for the first item that is empty after
\* trim or longer than maxLength, or None
validateStringArray(arr, name, maxLength) ==
  LET bad == {i \in 1..Len(arr) : Trim(arr[i]) = "" \/ Len(arr[i]) > maxLength}
      first == CHOOSE i \in bad : \A j \in bad : i <= j
  IN IF bad = {} THEN None
     ELSE IF Trim(arr[first]) = "" THEN Some("All " \o name \o " must be non-empty strings")
     ELSE Some(name \o " items must be under " \o NatToString(maxLength) \o " characters")

\* !Array.isArray(x) || x.length === 0
MissingOrEmpty(x) == ~IsSome(x) \/ Len(Get(x)) = 0

\* the first of the validations that reports an error, or None
RECURSIVE FirstError(_)
FirstError(validations) ==
  IF validations = <<>> THEN None
  ELSE IF IsSome(Head(validations)) THEN Head(validations)
  ELSE FirstError(Tail(validations))

\* RequestSpiritualGuidance.validateRequest
GuidanceValidateRequest(request) ==
  IF ~IsSome(request.topic) \/ Trim(Get(request.topic)) = ""
    THEN Some("Topic cannot be empty")
  ELSE IF Len(Get(request.topic)) > MaxTopicLength
    THEN Some("Topic too long. Please keep topics under 200 characters.")
  ELSE IF ~IsSome(request.userContext) THEN Some("User context is required")
  ELSE LET userContext == Get(request.userContext)
       IN IF \/ ~IsSome(userContext.experienceLevel)
             \/ Get(userContext.experienceLevel) = ""
             \/ Get(userContext.experienceLevel) \notin ExperienceLevels
            THEN Some("Invalid experience level. Must be beginner, intermediate, or advanced.")
          ELSE IF MissingOrEmpty(userContext.spiritualGoals)
            THEN Some("At least one spiritual goal is required")
          ELSE IF MissingOrEmpty(userContext.currentChallenges)
            THEN Some("At least one current challenge is required")
          ELSE IF MissingOrEmpty(userContext.preferredPractices)
            THEN Some("At least one preferred practice is required")
          ELSE IF ~IsSome(userContext.previousExperiences)
            THEN Some("Previous experiences must be an array")
          ELSE IF Len(Get(userContext.spiritualGoals)) > MaxGoals
            THEN Some("Too many spiritual goals. Please limit to 10 or fewer.")
          ELSE IF Len(Get(userContext.currentChallenges)) > MaxChallenges
            THEN Some("Too many challenges. Please limit to 10 or fewer.")
          ELSE IF Len(Get(userContext.preferredPractices)) > MaxPractices
            THEN Some("Too many preferred practices. Please limit to 15 or fewer.")
          ELSE IF Len(Get(userContext.previousExperiences)) > MaxExperiences
            THEN Some("Too many previous experiences. Please limit to 20 or fewer.")
          ELSE FirstError(<<
            validateStringArray(Get(userContext.spiritualGoals), "spiritual goals",
                                MaxGoalLength),
            validateStringArray(Get(userContext.currentChallenges), "challenges",
                                MaxChallengeLength),
            validateStringArray(Get(userContext.preferredPractices), "practices",
                                MaxPracticeLength),
            validateStringArray(Get(userContext.previousExperiences), "experiences",
                                MaxExperienceLength),
            IF /\ IsSome(userContext.timeAvailable)
               /\ Len(Get(userContext.timeAvailable)) > MaxTimeAvailableLength
            THEN Some("Time available description must be under 50 characters")
            ELSE None >>)

\* a handleError that applies the rules of SendChatMessage before its own
GuidanceHandleErrorLikeChat(error) ==
  IF ~error.isError THEN "An unexpected error occurred. Please try again."
  ELSE IF Includes(error.message, "Authentication required")
    THEN "Authentication required. Please log in."
  ELSE IF Includes(error.message, "Message too long")
    THEN "Message too long. Please keep messages under 2000 characters."
  ELSE IF Includes(error.message, "temporarily unavailable")
    THEN "Spiritual guidance service is temporarily unavailable. Please try again later."
  ELSE IF Includes(error.message, "I can only provide") THEN error.message
  ELSE IF Includes(error.message, "Invalid request data")
    THEN "Invalid request. Please check your input and try again."
  ELSE IF Includes(error.message, "Access denied")
    THEN "Access denied. Please check your permissions."
  ELSE IF Includes(error.message, "Too many requests")
    THEN "Too many requests. Please try again later."
  ELSE IF Includes(error.message, "Network connection failed")
    THEN "Network connection failed. Please check your internet connection."
  ELSE error.message

\* RequestSpiritualGuidance.handleError
GuidanceHandleError(error) ==
  IF ~error.isError THEN "An unexpected error occurred. Please try again."
  ELSE IF Includes(error.message, "Authentication required")
    THEN "Authentication required. Please log in."
  ELSE IF Includes(error.message, "Access denied")
    THEN "Access denied. Please check your permissions."
  ELSE IF Includes(error.message, "Too many requests")
    THEN "Too many requests. Please try again later."
  ELSE IF Includes(error.message, "temporarily unavailable")
    THEN "Spiritual guidance service is temporarily unavailable. Please try again later."
  ELSE IF Includes(error.message, "Invalid request data")
    THEN "Invalid request. Please check your input and try again."
  ELSE IF Includes(error.message, "Network connection failed")
    THEN "Network connection failed. Please check your internet connection."
  ELSE error.message

\* RequestSpiritualGuidance.execute up to its first await
GuidanceExecute(u) ==
  LET validationError == GuidanceValidateRequest(Get(u.request))
  IN IF IsSome(validationError)
     THEN Returned(u, Failure(Get(validationError)), TRUE)
     ELSE AwaitingWith(u, "requestSpiritualGuidance",
                       [topic |-> Trim(Get(Get(u.request).topic)),
                        userContext |-> Get(u.request).userContext])

GuidanceResolved(u, guidance) == Returned(u, Success(guidance), FALSE)

GuidanceRejected(u, error) == Returned(u, Failure(GuidanceHandleError(error)), FALSE)

(***************************************************************************)
(* RequestAstrologyReading.  Dates of birth are compared by day: a date    *)
(* 'YYYY-MM-DD' parses to midnight UTC of its day, and the clock reading   *)
(* is given by the day it falls on, so `date > new Date()` is              *)
(* day > today.                                                            *)
(***************************************************************************)
MinBirthYear == 1900
MinPlaceLength == 2
MaxPlaceLength == 100
MaxTimezoneLength == 50
MaxReadingTypeLength == 100

allowedReadingTypes ==
  <<"natal_chart", "daily_horoscope", "compatibility", "transit", "solar_return",
    "lunar_return", "composite_chart", "synastry">>

partnerReadingTypes == {"compatibility", "composite_chart", "synastry"}

\* Array.prototype.join
RECURSIVE Join(_, _)
Join(items, separator) ==
  IF items = <<>> THEN ""
  ELSE IF Len(items) = 1 THEN items[1]
  ELSE items[1] \o separator \o Join(Tail(items), separator)

IsLeapYear(y) == (y % 4 = 0 /\ y % 100 # 0) \/ y % 400 = 0

DaysInMonth(y, m) ==
  IF m = 2 THEN (IF IsLeapYear(y) THEN 29 ELSE 28)
  ELSE IF m \in {4, 6, 9, 11} THEN 30 ELSE 31

\* the day number (days since 1970-01-01) of a calendar date, year >= 1
DaysFromCivil(y, m, d) ==
  LET yy == IF m <= 2 THEN y - 1 ELSE y
      era == yy \div 400
      yoe == yy - era * 400
      mp == IF m > 2 THEN m - 3 ELSE m + 9
      doy == (153 * mp + 2) \div 5 + d - 1
      doe == yoe * 365 + yoe \div 4 - yoe \div 100 + doy
  IN era * 146097 + doe - 719468

\* /^\d{4}-\d{2}-\d{2}$/.test(s)
DateRegexTest(s) ==
  /\ Len(s) = 10
  /\ AllDigits(SubSeq(s, 1, 4)) /\ Char(s, 5) = "-"
  /\ AllDigits(SubSeq(s, 6, 7)) /\ Char(s, 8) = "-"
  /\ AllDigits(SubSeq(s, 9, 10))

\* new Date('YYYY-MM-DD') for a string that passed the regular expression:
\* its day number, or NaN.  A day beyond the month's last (up to 31) is not
\* a date of the ISO format; what then happens is left to the engine:
\* a lenient one rolls over into the next month, a strict one gives an
\* Invalid Date.  NaNDay stands for the Invalid Date.
NaNDay == -1000000

ParseDateOfBirth(s, lenient) ==
  LET y == StringToNat(SubSeq(s, 1, 4))
      m == StringToNat(SubSeq(s, 6, 7))
      d == StringToNat(SubSeq(s, 9, 10))
  IN IF m \notin 1..12 \/ d \notin 1..31 \/ y < 1 THEN NaNDay
     ELSE IF d <= DaysInMonth(y, m) \/ lenient THEN DaysFromCivil(y, m, 1) + d - 1
     ELSE NaNDay

\* /^([01]\d|2[0-3]):([0-5]\d)$/.test(s)
TimeRegexTest(s) ==
  /\ Len(s) = 5
  /\ AllDigits(SubSeq(s, 1, 2)) /\ StringToNat(SubSeq(s, 1, 2)) <= 23
  /\ Char(s, 3) = ":"
  /\ AllDigits(SubSeq(s, 4, 5)) /\ StringToNat(SubSeq(s, 4, 5)) <= 59

TimezoneChars ==
  "ABCDEFGHIJKLMNOPQRSTUVWXYZabcdefghijklmnopqrstuvwxyz_+-0123456789/"

\* /^[A-Za-z_+\-0-9\/]+$/.test(s)
TimezoneRegexTest(s) ==
  /\ Len(s) >= 1
  /\ \A i \in 1..Len(s) : \E j \in 1..Len(TimezoneChars) : Char(s, i) = Char(TimezoneChars, j)

\* x?.trim() is falsy
Blank(x) == ~IsSome(x) \/ Trim(Get(x)) = ""

\* RequestAstrologyReading.validateBirthInfo, at a clock reading that falls
\* on the day today
validateBirthInfo(birthInfo, prefix, today, lenient) ==
  IF Blank(birthInfo.dateOfBirth) THEN Some(prefix \o " date of birth is required")
  ELSE IF ~DateRegexTest(Get(birthInfo.dateOfBirth))
    THEN Some(prefix \o " date of birth must be in YYYY-MM-DD format")
  ELSE LET date == ParseDateOfBirth(Get(birthInfo.dateOfBirth), lenient)
       IN IF date = NaNDay THEN Some(prefix \o " date of birth is not a valid date")
          ELSE IF date > today THEN Some(prefix \o " date of birth cannot be in the future")
          ELSE IF date < DaysFromCivil(MinBirthYear, 1, 1)
            THEN Some(prefix \o " date of birth cannot be before 1900")
          ELSE IF Blank(birthInfo.timeOfBirth)
            THEN Some(prefix \o " time of birth is required")
          ELSE IF ~TimeRegexTest(Get(birthInfo.timeOfBirth))
            THEN Some(prefix \o " time of birth must be in HH:MM format (24-hour)")
          ELSE IF Blank(birthInfo.placeOfBirth)
            THEN Some(prefix \o " place of birth is required")
          ELSE IF Len(Get(birthInfo.placeOfBirth)) < MinPlaceLength
            THEN Some(prefix \o " place of birth must be at least 2 characters")
          ELSE IF Len(Get(birthInfo.placeOfBirth)) > MaxPlaceLength
            THEN Some(prefix \o " place of birth must be under 100 characters")
          ELSE IF IsSome(birthInfo.timezone) /\ Get(birthInfo.timezone) # ""
            THEN IF Len(Get(birthInfo.timezone)) > MaxTimezoneLength
                   THEN Some(prefix \o " timezone must be under 50 characters")
                 ELSE IF ~TimezoneRegexTest(Get(birthInfo.timezone))
                   THEN Some(prefix \o " timezone format is invalid")
                 ELSE None
          ELSE None

\* validateRequest without the check that the reading type takes a partner
AstrologyValidateRequestAnyPartner(request, today, lenient) ==
  LET birthValidation == validateBirthInfo(Get(request.birthInfo), "Your", today, lenient)
      readingType == Get(request.readingType)
  IN IF IsSome(birthValidation) THEN birthValidation
     ELSE IF Blank(request.readingType) THEN Some("Reading type is required")
     ELSE IF Len(readingType) > MaxReadingTypeLength
       THEN Some("Reading type must be under 100 characters")
     ELSE IF \A i \in 1..Len(allowedReadingTypes) : allowedReadingTypes[i] # Trim(readingType)
       THEN Some("Invalid reading type. Allowed types: " \o Join(allowedReadingTypes, ", "))
     ELSE IF IsSome(request.partnerBirthInfo)
       THEN validateBirthInfo(Get(request.partnerBirthInfo), "Partner's", today, lenient)
     ELSE IF Trim(readingType) \in partnerReadingTypes
       THEN Some("Partner birth information is required for " \o readingType \o " reading")
     ELSE None

\* RequestAstrologyReading.validateRequest, for a request with birthInfo
AstrologyValidateRequest(request, today, lenient) ==
  LET birthValidation == validateBirthInfo(Get(request.birthInfo), "Your", today, lenient)
      readingType == Get(request.readingType)
  IN IF IsSome(birthValidation) THEN birthValidation
     ELSE IF Blank(request.readingType) THEN Some("Reading type is required")
     ELSE IF Len(readingType) > MaxReadingTypeLength
       THEN Some("Reading type must be under 100 characters")
     ELSE IF \A i \in 1..Len(allowedReadingTypes) : allowedReadingTypes[i] # Trim(readingType)
       THEN Some("Invalid reading type. Allowed types: " \o Join(allowedReadingTypes, ", "))
     ELSE IF IsSome(request.partnerBirthInfo)
       THEN IF Trim(readingType) \notin partnerReadingTypes
            THEN Some("Partner birth info is not needed for " \o readingType \o " reading")
            ELSE validateBirthInfo(Get(request.partnerBirthInfo), "Partner's", today, lenient)
     ELSE IF Trim(readingType) \in partnerReadingTypes
       THEN Some("Partner birth information is required for " \o readingType \o " reading")
     ELSE None

\* RequestAstrologyReading.handleError
AstrologyHandleError(error) ==
  IF ~error.isError THEN "An unexpected error occurred. Please try again."
  ELSE IF Includes(error.message, "Authentication required")
    THEN "Authentication required. Please log in."
  ELSE IF Includes(error.message, "Access denied")
    THEN "Access denied. Please check your permissions."
  ELSE IF Includes(error.message, "Too many requests")
    THEN "Too many requests. Please try again later."
  ELSE IF Includes(error.message, "temporarily unavailable")
    THEN "Astrology service is temporarily unavailable. Please try again later."
  ELSE IF Includes(error.message, "Invalid birth data")
    THEN "Invalid birth information. Please check your date, time, and location."
  ELSE IF Includes(error.message, "Invalid request data")
    THEN "Invalid request. Please check your input and try again."
  ELSE IF Includes(error.message, "Network connection failed")
    THEN "Network connection failed. Please check your internet connection."
  ELSE error.message

\* RequestAstrologyReading.execute up to its first await; without birthInfo
\* validateBirthInfo throws a TypeError, which the catch block maps
AstrologyExecute(u) ==
  IF ~IsSome(Get(u.request).birthInfo)
  THEN Returned(u, Failure(AstrologyHandleError(Error(
         "Cannot read properties of undefined (reading 'dateOfBirth')"))), FALSE)
  ELSE LET validationError == AstrologyValidateRequest(Get(u.request), u.now, u.lenient)
       IN IF IsSome(validationError)
          THEN Returned(u, Failure(Get(validationError)), TRUE)
          ELSE Awaiting(u, "requestAstrologyReading")

AstrologyResolved(u, reading) == Returned(u, Success(reading), FALSE)

AstrologyRejected(u, error) == Returned(u, Failure(AstrologyHandleError(error)), FALSE)

(***************************************************************************)
(* SendChatMessage                                                         *)
(***************************************************************************)
\* a variant of validateRequest that measures the message before it trims it
SendChatMessageValidateRequestLengthFirst(request) ==
  IF IsSome(request.message) /\ Len(Get(request.message)) > MaxContentLength
    THEN Some("Message too long. Please keep messages under 2000 characters.")
  ELSE IF Blank(request.message) THEN Some("Message cannot be empty")
  ELSE IF /\ IsSome(request.experienceLevel)
          /\ Get(request.experienceLevel) # ""
          /\ Get(request.experienceLevel) \notin ExperienceLevels
    THEN Some("Invalid experience level. Must be beginner, intermediate, or advanced.")
  ELSE None

\* SendChatMessage.validateRequest
SendChatMessageValidateRequest(request) ==
  IF Blank(request.message) THEN Some("Message cannot be empty")
  ELSE IF Len(Get(request.message)) > MaxContentLength
    THEN Some("Message too long. Please keep messages under 2000 characters.")
  ELSE IF /\ IsSome(request.experienceLevel)
          /\ Get(request.experienceLevel) # ""
          /\ Get(request.experienceLevel) \notin ExperienceLevels
    THEN Some("Invalid experience level. Must be beginner, intermediate, or advanced.")
  ELSE None

\* a variant of handleError that looks for 'Message too long' first
SendChatMessageHandleErrorReordered(error) ==
  IF ~error.isError THEN "An unexpected error occurred. Please try again."
  ELSE IF Includes(error.message, "Message too long")
    THEN "Message too long. Please keep messages under 2000 characters."
  ELSE IF Includes(error.message, "Authentication required")
    THEN "Authentication required. Please log in."
  ELSE IF Includes(error.message, "temporarily unavailable")
    THEN "AI service is temporarily unavailable. Please try again later."
  ELSE IF Includes(error.message, "I can only provide") THEN error.message
  ELSE IF Includes(error.message, "Invalid request data")
    THEN "Invalid request. Please check your input and try again."
  ELSE error.message

\* SendChatMessage.handleError
SendChatMessageHandleError(error) ==
  IF ~error.isError THEN "An unexpected error occurred. Please try again."
  ELSE IF Includes(error.message, "Authentication required")
    THEN "Authentication required. Please log in."
  ELSE IF Includes(error.message, "Message too long")
    THEN "Message too long. Please keep messages under 2000 characters."
  ELSE IF Includes(error.message, "temporarily unavailable")
    THEN "AI service is temporarily unavailable. Please try again later."
  ELSE IF Includes(error.message, "I can only provide") THEN error.message
  ELSE IF Includes(error.message, "Invalid request data")
    THEN "Invalid request. Please check your input and try again."
  ELSE error.message

\* the catch block of SendChatMessage.execute
SendChatMessageCatch(u, error) ==
  Returned(u, Failure(SendChatMessageHandleError(error)), FALSE)

\* SendChatMessage.execute up to its first await, at clock reading u.now:
\* [h, u]
SendChatMessageExecute(h, u, rnd) ==
  LET request == Get(u.request)
      validationError == SendChatMessageValidateRequest(request)
      supplied == request.conversation
      userMessage ==
        createUserMessage(h, Get(request.message),
                          IF IsSome(supplied) THEN Some(h.conversations[Get(supplied)].id)
                          ELSE None,
                          u.now, rnd)
      currentConversation ==
        IF IsSome(supplied)
        THEN addMessage(userMessage.h, Get(supplied), userMessage.ref, u.now)
        ELSE createWithFirstMessage(userMessage.h, userMessage.ref, None, u.now, u.now, rnd)
  IN IF IsSome(validationError)
       THEN [h |-> h, u |-> Returned(u, Failure(Get(validationError)), TRUE)]
     ELSE IF ~userMessage.ok
       THEN [h |-> h, u |-> SendChatMessageCatch(u, userMessage.thrown)]
     ELSE IF ~currentConversation.ok
       THEN [h |-> h, u |-> SendChatMessageCatch(u, currentConversation.thrown)]
     ELSE [h |-> currentConversation.h,
           u |-> Awaiting([u EXCEPT !.conversation = currentConversation.ref,
                                    !.userMessage = userMessage.ref],
                          "sendChatMessage")]

\* the arrays of a chat response, as objects of the heap: [h, field]
ResponseArray(h, field) ==
  IF IsSome(field)
  THEN [h |-> AllocStr(h, Get(field)), field |-> Some(Len(h.strArrays) + 1)]
  ELSE [h |-> h, field |-> None]

\* a variant that appends the assistant message to the conversation of the
\* request instead of currentConversation
SendChatMessageResolvedFromRequest(h, u, chatResponse, now, rnd) ==
  LET themes == ResponseArray(h, chatResponse.spiritualThemes)
      actions == ResponseArray(themes.h, chatResponse.suggestedActions)
      topics == ResponseArray(actions.h, chatResponse.relatedTopics)
      assistantMessage ==
        createAssistantMessage(topics.h, chatResponse.message, chatResponse.conversationId,
                               themes.field, actions.field, topics.field, now, rnd)
      supplied == Get(u.request).conversation
      finalConversation ==
        IF IsSome(supplied)
        THEN addMessage(assistantMessage.h, Get(supplied), assistantMessage.ref, now)
        ELSE addMessage(assistantMessage.h, u.conversation, assistantMessage.ref, now)
  IN IF u.pending = "saveConversation"
       THEN [h |-> h,
             u |-> Returned(u, Success([updatedConversation |-> u.conversation,
                                        assistantMessage |-> u.assistantMessage]),
                            FALSE)]
     ELSE IF ~assistantMessage.ok
       THEN [h |-> h, u |-> SendChatMessageCatch(u, assistantMessage.thrown)]
     ELSE IF ~finalConversation.ok
       THEN [h |-> h, u |-> SendChatMessageCatch(u, finalConversation.thrown)]
     ELSE [h |-> finalConversation.h,
           u |-> Awaiting([u EXCEPT !.conversation = finalConversation.ref,
                                    !.assistantMessage = assistantMessage.ref],
                          "saveConversation")]

\* SendChatMessage.execute after the awaited call has resolved: after
\* sendChatMessage, at clock reading now, up to await saveConversation;
\* after saveConversation, to the return: [h, u]
SendChatMessageResolved(h, u, chatResponse, now, rnd) ==
  LET themes == ResponseArray(h, chatResponse.spiritualThemes)
      actions == ResponseArray(themes.h, chatResponse.suggestedActions)
      topics == ResponseArray(actions.h, chatResponse.relatedTopics)
      assistantMessage ==
        createAssistantMessage(topics.h, chatResponse.message, chatResponse.conversationId,
                               themes.field, actions.field, topics.field, now, rnd)
      finalConversation ==
        addMessage(assistantMessage.h, u.conversation, assistantMessage.ref, now)
  IN IF u.pending = "saveConversation"
       THEN [h |-> h,
             u |-> Returned(u, Success([updatedConversation |-> u.conversation,
                                        assistantMessage |-> u.assistantMessage]),
                            FALSE)]
     ELSE IF ~assistantMessage.ok
       THEN [h |-> h, u |-> SendChatMessageCatch(u, assistantMessage.thrown)]
     ELSE IF ~finalConversation.ok
       THEN [h |-> h, u |-> SendChatMessageCatch(u, finalConversation.thrown)]
     ELSE [h |-> finalConversation.h,
           u |-> Awaiting([u EXCEPT !.conversation = finalConversation.ref,
                                    !.assistantMessage = assistantMessage.ref],
                          "saveConversation")]

\* a variant that reports success although saveConversation failed
SendChatMessageRejectedSwallowed(u, error) ==
  IF u.pending = "saveConversation"
  THEN Returned(u, Success([updatedConversation |-> u.conversation,
                            assistantMessage |-> u.assistantMessage]), FALSE)
  ELSE SendChatMessageCatch(u, error)

\* a variant that sends the message once more when the chat endpoint failed
SendChatMessageRejectedRetried(u, error) ==
  IF u.pending = "sendChatMessage" /\ Len(u.calls) = 1
  THEN Awaiting(u, "sendChatMessage")
  ELSE SendChatMessageCatch(u, error)

\* SendChatMessage.execute after the awaited call has rejected
SendChatMessageRejected(u, error) == SendChatMessageCatch(u, error)

(***************************************************************************)
(* The use cases under arbitrary requests and repository outcomes.         *)
(***************************************************************************)
\* execute up to its first await: [h, u]
Execute(h, u, rnd) ==
  CASE u.useCase = "SendChatMessage" -> SendChatMessageExecute(h, u, rnd)
    [] u.useCase = "RequestSpiritualGuidance" -> [h |-> h, u |-> GuidanceExecute(u)]
    [] u.useCase = "RequestAstrologyReading" -> [h |-> h, u |-> AstrologyExecute(u)]
    [] u.useCase = "LoadConversations" -> [h |-> h, u |-> LoadConversationsExecute(u)]
    [] u.useCase = "LoginUser" -> [h |-> h, u |-> LoginUserExecute(u)]
    [] u.useCase = "RegisterUser" -> [h |-> h, u |-> RegisterUserExecute(u)]

\* execute from the await of a call that resolved to value: [h, u]
Resolved(h, u, value, now, rnd) ==
  CASE u.useCase = "SendChatMessage" -> SendChatMessageResolved(h, u, value, now, rnd)
    [] u.useCase = "RequestSpiritualGuidance" -> [h |-> h, u |-> GuidanceResolved(u, value)]
    [] u.useCase = "RequestAstrologyReading" -> [h |-> h, u |-> AstrologyResolved(u, value)]
    [] u.useCase = "LoadConversations" -> [h |-> h, u |-> LoadConversationsResolved(u, value)]
    [] u.useCase = "LoginUser" -> [h |-> h, u |-> LoginUserResolved(u, value)]
    [] u.useCase = "RegisterUser" -> [h |-> h, u |-> RegisterUserResolved(u, value)]

\* execute from the await of a call that rejected with error
Rejected(u, error) ==
  CASE u.useCase = "SendChatMessage" -> SendChatMessageRejected(u, error)
    [] u.useCase = "RequestSpiritualGuidance" -> GuidanceRejected(u, error)
    [] u.useCase = "RequestAstrologyReading" -> AstrologyRejected(u, error)
    [] u.useCase = "LoadConversations" -> LoadConversationsRejected(u, error)
    [] u.useCase = "LoginUser" -> LoginUserRejected(u, error)
    [] u.useCase = "RegisterUser" -> RegisterUserRejected(u, error)

\* the conversations a chat request can carry: 1 is "c1" with one message,
\* created at 0; 2 is "c2", empty, created at the last clock reading
UseCasePool ==
  LET m == Message(EmptyHeap, PoolProps("m1", Some("c1")))
      h1 == AllocMsgs(m.h, <<m.ref>>)
      a == Conversation(h1, [id |-> "c1", messages |-> Some(Len(h1.msgArrays)),
                             createdAt |-> Some(0), updatedAt |-> Some(0),
                             summary |-> None, userId |-> None])
      h2 == AllocMsgs(a.h, <<>>)
  IN Conversation(h2, [id |-> "c2", messages |-> Some(Len(h2.msgArrays)),
                       createdAt |-> Some(MaxTime), updatedAt |-> Some(MaxTime),
                       summary |-> None, userId |-> None]).h

SendChatMessageRequests ==
  {[message |-> message, conversation |-> conversation, experienceLevel |-> None] :
     message \in {Some("Hello"), Some(" Hi "), Some("   "), None,
                  Some(Repeat("a", MaxContentLength + 1))},
     conversation \in {None, Some(1), Some(2)}}
  \cup {[message |-> Some("Hello"), conversation |-> None, experienceLevel |-> level] :
          level \in {Some("beginner"), Some("expert"), Some("Beginner"), Some("")}}
  \cup {[message |-> message, conversation |-> None, experienceLevel |-> Some("expert")] :
          message \in {Some(" \n"), Some(Repeat("a", MaxContentLength + 1))}}
  \cup {[message |-> message, conversation |-> None, experienceLevel |-> None] :
          message \in {Some(Repeat(" ", MaxContentLength + 1)),
                       Some(Repeat("a", MaxContentLength)),
                       Some(" " \o Repeat("a", MaxContentLength) \o " ")}}

\* what the chat endpoint can answer about the conversation with the id
ChatResponses(id) ==
  {[message |-> "Find peace within", conversationId |-> Some(id),
    spiritualThemes |-> Some(<<"inner_peace">>), suggestedActions |-> None,
    relatedTopics |-> None],
   [message |-> " Breathe deeply.\n", conversationId |-> Some(id),
    spiritualThemes |-> Some(<<"calm", "breath">>),
    suggestedActions |-> Some(<<"meditate">>), relatedTopics |-> Some(<<>>)],
   [message |-> "Be still", conversationId |-> None,
    spiritualThemes |-> None, suggestedActions |-> None, relatedTopics |-> None],
   [message |-> "Be still", conversationId |-> Some("conv-elsewhere"),
    spiritualThemes |-> Some(<<>>), suggestedActions |-> None, relatedTopics |-> None],
   [message |-> "  ", conversationId |-> Some(id),
    spiritualThemes |-> Some(<<>>), suggestedActions |-> None, relatedTopics |-> None]}

GuidanceContext ==
  [experienceLevel |-> Some("beginner"), spiritualGoals |-> Some(<<"peace">>),
   currentChallenges |-> Some(<<"stress">>), preferredPractices |-> Some(<<"yoga">>),
   previousExperiences |-> Some(<<>>), timeAvailable |-> None]

Items(n) == [i \in 1..n |-> "item"]

GuidanceRequests ==
  {[topic |-> topic, userContext |-> Some(GuidanceContext)] :
     topic \in {Some(" Meditation "), Some("  "), None, Some(Repeat("t", MaxTopicLength + 1))}}
  \cup {[topic |-> Some("Meditation"), userContext |-> None]}
  \cup {[topic |-> Some("Meditation"), userContext |-> Some(context)] :
          context \in
            {[GuidanceContext EXCEPT !.experienceLevel = Some("expert")],
             [GuidanceContext EXCEPT !.experienceLevel = None],
             [GuidanceContext EXCEPT !.spiritualGoals = Some(<<>>)],
             [GuidanceContext EXCEPT !.spiritualGoals = Some(Items(MaxGoals + 1))],
             [GuidanceContext EXCEPT !.currentChallenges = None],
             [GuidanceContext EXCEPT !.currentChallenges = Some(Items(MaxChallenges + 1))],
             [GuidanceContext EXCEPT !.preferredPractices = Some(<<>>)],
             [GuidanceContext EXCEPT !.preferredPractices = Some(Items(MaxPractices + 1))],
             [GuidanceContext EXCEPT !.preferredPractices =
                Some(<<"yoga", Repeat("p", MaxPracticeLength + 1)>>)],
             [GuidanceContext EXCEPT !.previousExperiences = None],
             [GuidanceContext EXCEPT !.previousExperiences = Some(Items(MaxExperiences + 1))],
             [GuidanceContext EXCEPT !.previousExperiences = Some(<<"retreat", " ">>)],
             [GuidanceContext EXCEPT !.spiritualGoals = Some(<<" ">>),
                                     !.currentChallenges = Some(<<Repeat("c", MaxChallengeLength + 1)>>)],
             [GuidanceContext EXCEPT !.timeAvailable = Some(Repeat("m", MaxTimeAvailableLength + 1))],
             [GuidanceContext EXCEPT !.timeAvailable = Some("an hour")],
             [GuidanceContext EXCEPT !.timeAvailable = Some(Repeat("m", MaxTimeAvailableLength))],
             [GuidanceContext EXCEPT !.timeAvailable = Some("")],
             [GuidanceContext EXCEPT !.spiritualGoals = Some(Items(MaxGoals)),
                                     !.currentChallenges = Some(Items(MaxChallenges)),
                                     !.preferredPractices = Some(Items(MaxPractices)),
                                     !.previousExperiences = Some(Items(MaxExperiences))],
             [GuidanceContext EXCEPT !.spiritualGoals = Some(Items(MaxGoals + 1)),
                                     !.currentChallenges = Some(<<>>)],
             [GuidanceContext EXCEPT !.experienceLevel = Some(""),
                                     !.spiritualGoals = None],
             [GuidanceContext EXCEPT !.spiritualGoals = Some(<<Repeat("g", MaxGoalLength)>>)],
             [GuidanceContext EXCEPT !.spiritualGoals = Some(<<Repeat("g", MaxGoalLength - 1)>>)],
             [GuidanceContext EXCEPT !.spiritualGoals = Some(<<Repeat("g", MaxGoalLength + 1)>>)],
             [GuidanceContext EXCEPT !.currentChallenges =
                Some(<<"stress", Repeat("c", MaxChallengeLength)>>)],
             [GuidanceContext EXCEPT !.preferredPractices =
                Some(<<Repeat("p", MaxPracticeLength)>>)],
             [GuidanceContext EXCEPT !.previousExperiences =
                Some(<<Repeat("e", MaxExperienceLength)>>)],
             [GuidanceContext EXCEPT !.previousExperiences =
                Some(<<Repeat("e", MaxExperienceLength + 1)>>)],
             [GuidanceContext EXCEPT !.preferredPractices = Some(<<"  ">>),
                                     !.previousExperiences = Some(Items(MaxExperiences + 1))],
             [GuidanceContext EXCEPT !.previousExperiences = Some(<<"retreat">>)]}}
  \cup {[topic |-> topic, userContext |-> None] :
          topic \in {Some(""), Some(Repeat("t", MaxTopicLength + 1))}}
  \cup {[topic |-> topic, userContext |-> Some(GuidanceContext)] :
          topic \in {Some(Repeat("t", MaxTopicLength)),
                     Some(" " \o Repeat("t", MaxTopicLength - 1) \o "  ")}}

BirthInfo ==
  [dateOfBirth |-> Some("1990-05-15"), timeOfBirth |-> Some("14:30"),
   placeOfBirth |-> Some("Lisbon"), timezone |-> None]

BirthInfos ==
  {BirthInfo,
   [BirthInfo EXCEPT !.dateOfBirth = None],
   [BirthInfo EXCEPT !.dateOfBirth = Some("15/05/1990")],
   [BirthInfo EXCEPT !.dateOfBirth = Some("1990-13-01")],
   [BirthInfo EXCEPT !.dateOfBirth = Some("1990-02-30")],
   [BirthInfo EXCEPT !.dateOfBirth = Some("2025-06-01")],
   [BirthInfo EXCEPT !.dateOfBirth = Some("2025-06-01"), !.timeOfBirth = Some("")],
   [BirthInfo EXCEPT !.dateOfBirth = Some("1899-12-31")],
   [BirthInfo EXCEPT !.timeOfBirth = Some("24:00")],
   [BirthInfo EXCEPT !.placeOfBirth = Some("  ")],
   [BirthInfo EXCEPT !.placeOfBirth = Some("X")],
   [BirthInfo EXCEPT !.placeOfBirth = Some(Repeat("x", MaxPlaceLength + 1))],
   [BirthInfo EXCEPT !.timezone = Some("Europe/Lisbon")],
   [BirthInfo EXCEPT !.timezone = Some("Europe Lisbon")],
   [BirthInfo EXCEPT !.timezone = Some(Repeat("z", MaxTimezoneLength + 1))]}

AstrologyRequests ==
  {[birthInfo |-> Some(birthInfo), readingType |-> Some("natal_chart"),
    partnerBirthInfo |-> None] : birthInfo \in BirthInfos}
  \cup {[birthInfo |-> Some(BirthInfo), readingType |-> readingType,
         partnerBirthInfo |-> partner] :
          readingType \in {None, Some(" synastry "), Some("tarot"), Some("transit"),
                           Some(Repeat("r", MaxReadingTypeLength + 1)),
                           Some("compatibility"), Some("composite_chart"),
                           Some("synastry"), Some("daily_horoscope")},
          partner \in {None, Some(BirthInfo),
                       Some([BirthInfo EXCEPT !.dateOfBirth = Some("2025-06-01")]),
                       Some([BirthInfo EXCEPT !.placeOfBirth = Some("X")])}}
  \cup {[birthInfo |-> None, readingType |-> Some("natal_chart"), partnerBirthInfo |-> None]}

\* the days the clock reading of a validation falls on
AstrologyDays == {DaysFromCivil(2024, 3, 1), DaysFromCivil(2026, 11, 4)}

LoadConversationsRequests ==
  {[limit |-> None]}
  \cup {[limit |-> Some(Half(k))] : k \in {-2, 0, 1, 2, 3, 20, 2 * MaxLimit, 2 * MaxLimit + 1,
                                           2 * MaxLimit + 2}}

Credentials ==
  {[email |-> email, password |-> "Secret#123"] :
     email \in {"ann@example.com", "ann@example", "ann example@x.org", "@example.com",
                "a@b@example.com", "ann@.com"}}
  \cup {[email |-> "ann@example.com", password |-> password] :
          password \in {"S#cret1", "secret#123", "Secret0123", "secret", "secret0123",
                        "SECRET1", ""}}
  \cup {[email |-> "ann", password |-> "secret"]}

RegisterDatas ==
  {[email |-> c.email, password |-> c.password, firstName |-> "Ann", lastName |-> "Lee"] :
     c \in Credentials}
  \cup {[email |-> "ann@example.com", password |-> "Secret#123",
         firstName |-> firstName, lastName |-> lastName] :
          firstName \in {"Ann", " "}, lastName \in {"Lee", ""}}

\* what a repository method can resolve to
ResolvedValues(method, id) ==
  CASE method = "sendChatMessage" -> ChatResponses(id)
    [] method = "requestSpiritualGuidance" -> {[guidance |-> "Breathe"]}
    [] method = "requestAstrologyReading" -> {[reading |-> "Sun in Taurus"]}
    [] method = "loadConversations" -> {<<>>, <<1, 2>>}
    [] method \in {"login", "register"} ->
         {[user |-> "ann", tokens |-> tokens] : tokens \in {"access-1/refresh-1", "access-2/refresh-2"}}
    [] OTHER -> {"void"}

\* what a repository method can reject with
Rejections(method) ==
  CASE method = "sendChatMessage" ->
         {Error("Authentication required"), Error("Message too long for the model"),
          Error("Service temporarily unavailable"),
          Error("I can only provide spiritual guidance"),
          Error("Invalid request data: message"), Error("Network connection failed"),
          Error("Message too long. Authentication required"),
          Error("Service temporarily unavailable: Message too long"),
          Error("I can only provide guidance while the service is temporarily unavailable"),
          Error("Invalid request data. I can only provide spiritual guidance"),
          Error("authentication required"), Error("Invalid Request Data"),
          NonError("Authentication required"), NonError("timeout")}
    [] method = "saveConversation" ->
         {Error("Failed to save conversation: Error: Storage quota exceeded"),
          NonError("quota")}
    [] method \in {"requestSpiritualGuidance", "requestAstrologyReading"} ->
         {Error("Authentication required"), Error("Access denied"),
          Error("Too many requests"), Error("Service temporarily unavailable"),
          Error("Invalid birth data"), Error("Invalid request data"),
          Error("Network connection failed"), Error("Request failed"), NonError("timeout"),
          Error("Message too long"), Error("I can only provide spiritual guidance"),
          Error("Service temporarily unavailable: Too many requests"),
          Error("Invalid request data. I can only provide guidance"),
          Error("Access denied. Authentication required"), Error("access denied"),
          NonError("Access denied")}
    [] method = "loadConversations" ->
         {Error("Failed to load conversations: SyntaxError"), Error("Storage unavailable"),
          NonError("timeout")}
    [] method = "login" ->
         {Error("Invalid credentials"), Error("invalid credentials"),
          Error("Invalid credentials for ann@example.com"), Error("Network error"),
          NonError("Invalid credentials"), NonError("timeout")}
    [] method = "register" ->
         {Error("User already exists"), Error("User already exists: ann@example.com"),
          Error("Network error"), NonError("User already exists"), NonError("timeout")}
    [] OTHER ->
         {Error("Failed to store tokens"), Error("Invalid credentials"),
          Error("User already exists"), NonError("keychain")}

\* execute(request) is called at clock reading now
Invoke(useCase, request, now, lenient, previous) ==
  /\ \E rnd \in RandomSuffixes :
       LET r == Execute(UseCasePool,
                        [NoInvocation EXCEPT !.useCase = useCase, !.request = Some(request),
                                             !.now = now, !.lenient = lenient,
                                             !.previous = previous],
                        rnd)
       IN heap' = r.h /\ uc' = r.u
  /\ UNCHANGED <<ui, repo, held, last>>

InvokeSendChatMessage ==
  /\ uc.pc = "idle"
  /\ \E request \in SendChatMessageRequests, now \in Clock :
    Invoke("SendChatMessage", request, now, FALSE, None)

InvokeRequestSpiritualGuidance ==
  /\ uc.pc = "idle"
  /\ \E request \in GuidanceRequests : Invoke("RequestSpiritualGuidance", request, 0, FALSE, None)

InvokeRequestAstrologyReading ==
  /\ uc.pc = "idle"
  /\ \E request \in AstrologyRequests, today \in AstrologyDays, lenient \in BOOLEAN :
    Invoke("RequestAstrologyReading", request, today, lenient, None)

InvokeLoadConversations ==
  /\ uc.pc = "idle"
  /\ \E request \in LoadConversationsRequests : Invoke("LoadConversations", request, 0, FALSE, None)

InvokeLoginUser ==
  /\ uc.pc = "idle"
  /\ \E credentials \in Credentials : Invoke("LoginUser", credentials, 0, FALSE, None)

InvokeRegisterUser ==
  /\ uc.pc = "idle"
  /\ \E data \in RegisterDatas : Invoke("RegisterUser", data, 0, FALSE, None)

\* the use cases keep nothing from one invocation to the next, so one
\* invocation is followed, and its repetition: the request that validation
\* rejected is sent again as it is, at another clock reading
InvokeAgain ==
  /\ uc.pc = "done"
  /\ uc.validation
  /\ uc.previous = None
  /\ \E now \in IF uc.useCase = "RequestAstrologyReading" THEN AstrologyDays
                ELSE IF uc.useCase = "SendChatMessage" THEN Clock ELSE {0} :
       Invoke(uc.useCase, Get(uc.request), now, uc.lenient,
              Some([error |-> Get(uc.result).error, now |-> uc.now]))

(***************************************************************************)
(* AiRepository.sendChatMessage over HTTP.  getAuthToken settles to a      *)
(* token, to null or with a thrown value; fetch rejects with a TypeError   *)
(* or resolves to a response [ok, status, statusText, body], whose body is *)
(* text that is no JSON, the JSON null, an error object with optional      *)
(* message and error strings, or a chat response.  A value thrown inside   *)
(* the repository is [class, message], class "" for a value that is no     *)
(* Error.                                                                  *)
(***************************************************************************)
Lowercase == "abcdefghijklmnopqrstuvwxyz"

\* String.prototype.toLowerCase, for ASCII letters
RECURSIVE ToLowerCase(_)
ToLowerCase(s) ==
  IF s = "" THEN ""
  ELSE LET c == Char(s, 1)
           upper == {j \in 1..Len(Uppercase) : Char(Uppercase, j) = c}
       IN (IF upper = {} THEN c ELSE Char(Lowercase, CHOOSE j \in upper : TRUE))
          \o ToLowerCase(SubSeq(s, 2, Len(s)))

Thrown(class, message) == [class |-> class, message |-> message]

\* a string that is truthy
Truthy(x) == IsSome(x) /\ Get(x) # ""

\* AiRepository.handleErrorResponse: the Error it throws.  Reading a
\* property of null throws inside the try block, as response.json() does
\* for a body that is no JSON.
handleErrorResponse(response) ==
  LET errorMessage ==
        IF response.body.kind \in {"text", "null"}
        THEN (IF response.statusText # "" THEN response.statusText
              ELSE "HTTP " \o NatToString(response.status))
        ELSE IF Truthy(response.body.message) THEN Get(response.body.message)
        ELSE IF Truthy(response.body.error) THEN Get(response.body.error)
        ELSE "Request failed"
  IN CASE response.status = 401 -> Thrown("Error", "Authentication required")
       [] response.status = 403 -> Thrown("Error", "Access denied")
       [] response.status = 429 ->
            Thrown("Error", "Too many requests. Please try again later.")
       [] response.status = 500 ->
            Thrown("Error", "AI service is temporarily unavailable. Please try again later.")
       [] response.status = 400 ->
            IF Includes(ToLowerCase(errorMessage), "message too long")
              THEN Thrown("Error", "Message too long")
            ELSE IF Includes(ToLowerCase(errorMessage), "invalid request")
              THEN Thrown("Error", "Invalid request data")
            ELSE Thrown("Error", errorMessage)
       [] OTHER -> Thrown("Error", errorMessage)

\* AiRepository.handleNetworkError: the Error it throws
handleNetworkError(error) ==
  IF error.class = "TypeError" /\ Includes(error.message, "fetch")
    THEN Thrown("Error", "Network connection failed. Please check your internet connection.")
  ELSE IF error.class # "" THEN error
  ELSE Thrown("Error", "An unexpected error occurred. Please try again.")

\* AiRepository.sendChatMessage: how its promise settles, [how, value]
sendChatMessage(auth, fetched) ==
  LET thrown ==
        IF auth.rejected THEN Some(Thrown("", "keychain locked"))
        ELSE IF ~Truthy(auth.token) THEN Some(Thrown("Error", "Authentication required"))
        ELSE IF IsSome(fetched.failure) THEN Some(Thrown("TypeError", Get(fetched.failure)))
        ELSE IF ~fetched.ok THEN Some(handleErrorResponse(fetched))
        ELSE IF fetched.body.kind # "chat"
          THEN Some(Thrown("SyntaxError", "Unexpected token < in JSON at position 0"))
        ELSE None
  IN IF IsSome(thrown)
     THEN [how |-> "rejected", value |-> Error(handleNetworkError(Get(thrown)).message)]
     ELSE [how |-> "resolved", value |-> Get(fetched.body.data)]

Body(kind, message, error, data) ==
  [kind |-> kind, message |-> message, error |-> error, data |-> data]

\* the bodies of the responses that are not OK
ErrorBodies ==
  {Body("text", None, None, None), Body("null", None, None, None),
   Body("error", None, None, None),
   Body("error", Some("Test error"), None, None),
   Body("error", Some(""), Some("Quota exhausted"), None),
   Body("error", None, Some("Invalid request: field missing"), None),
   Body("error", Some("INVALID REQUEST"), None, None),
   Body("error", Some("Message too long (2000 at most)"), Some("length"), None)}

StatusText(status) ==
  CASE status = 400 -> "Bad Request"
    [] status = 401 -> "Unauthorized"
    [] status = 403 -> "Forbidden"
    [] status = 404 -> "Not Found"
    [] status = 429 -> "Too Many Requests"
    [] status = 500 -> "Internal Server Error"
    [] OTHER -> "Service Unavailable"

ErrorStatuses == {400, 401, 403, 404, 429, 500, 503}

Response(ok, status, statusText, body) ==
  [failure |-> None, ok |-> ok, status |-> status, statusText |-> statusText, body |-> body]

\* what fetch can settle to for the conversation with the id
Fetches(id) ==
  {Response(FALSE, status, StatusText(status), body) :
     status \in ErrorStatuses, body \in ErrorBodies}
  \cup {Response(FALSE, status, "", Body("text", None, None, None)) : status \in {400, 500}}
  \cup {Response(TRUE, 200, "OK", Body("chat", None, None, Some(data))) :
          data \in ChatResponses(id)}
  \cup {Response(TRUE, 200, "OK", Body("text", None, None, None))}
  \cup {[Response(FALSE, 0, "", Body("text", None, None, None)) EXCEPT !.failure = Some(message)] :
          message \in {"Failed to fetch", "Network request failed"}}

\* what getAuthToken can settle to
Auths ==
  {[rejected |-> FALSE, token |-> Some("jwt")], [rejected |-> FALSE, token |-> None],
   [rejected |-> FALSE, token |-> Some("")], [rejected |-> TRUE, token |-> None]}

\* the sendChatMessage that SendChatMessage awaits is AiRepository's, and
\* it settles
ChatEndpointAnswers ==
  /\ uc.pc = "awaiting"
  /\ uc.pending = "sendChatMessage"
  /\ \E auth \in Auths, fetched \in Fetches(heap.conversations[uc.conversation].id),
        now \in Clock, rnd \in RandomSuffixes :
       LET settles == sendChatMessage(auth, fetched)
           u == Settled([uc EXCEPT !.http = Some([auth |-> auth, fetched |-> fetched])],
                        settles.how, settles.value)
           r == IF settles.how = "resolved" THEN Resolved(heap, u, settles.value, now, rnd)
                ELSE [h |-> heap, u |-> Rejected(u, settles.value)]
       IN heap' = r.h /\ uc' = r.u
  /\ UNCHANGED <<ui, repo, held, last>>

\* the awaited repository call resolves
RepositoryResolves ==
  /\ uc.pc = "awaiting"
  /\ \E value \in ResolvedValues(uc.pending,
                                 IF uc.conversation > 0 THEN heap.conversations[uc.conversation].id
                                 ELSE ""),
        now \in IF uc.pending = "sendChatMessage" THEN Clock ELSE {0},
        rnd \in RandomSuffixes :
       LET r == Resolved(heap, Settled(uc, "resolved", value), value, now, rnd)
       IN heap' = r.h /\ uc' = r.u
  /\ UNCHANGED <<ui, repo, held, last>>

\* the awaited repository call rejects
RepositoryRejects ==
  /\ uc.pc = "awaiting"
  /\ \E error \in Rejections(uc.pending) :
       uc' = Rejected(Settled(uc, "rejected", error), error)
  /\ UNCHANGED <<ui, repo, heap, held, last>>

InitUseCase ==
  /\ heap = UseCasePool
  /\ held = [str |-> {}, msg |-> {}]
  /\ last = NoOperation
  /\ uc = NoInvocation
  /\ repo = NoRepository
  /\ ui = NoInterface

NextUseCase ==
  \/ InvokeSendChatMessage
  \/ InvokeRequestSpiritualGuidance
  \/ InvokeRequestAstrologyReading
  \/ InvokeLoadConversations
  \/ InvokeLoginUser
  \/ InvokeRegisterUser
  \/ InvokeAgain
  \/ RepositoryResolves
  \/ RepositoryRejects
  \/ ChatEndpointAnswers

SpecUseCase == InitUseCase /\ [][NextUseCase]_vars

(***************************************************************************)
(* Properties of the use cases.                                            *)
(***************************************************************************)
Finished(useCase) == uc.pc = "done" /\ uc.useCase = useCase

\* the calls of the invocation settled this way, in this order
SettledAs(hows) ==
  /\ Len(uc.settled) = Len(hows)
  /\ \A i \in 1..Len(hows) : uc.settled[i].how = hows[i]

\* C1: execute never throws or rejects, whatever the input and however the
\* repository calls settle: it waits only for a repository call, and it ends
\* with a result that has success true, a payload and no error, or success
\* false, an error string and no payload.
C1_ExecuteNeverThrows ==
  /\ uc.pc \in {"idle", "awaiting", "done"}
  /\ uc.pc = "awaiting" => uc.pending # ""
  /\ uc.pc = "done" =>
       /\ uc.escaped = None
       /\ IsSome(uc.result)
       /\ IF Get(uc.result).success
          THEN IsSome(Get(uc.result).payload) /\ Get(uc.result).error = None
          ELSE IsSome(Get(uc.result).error) /\ Get(uc.result).payload = None

\* LoginUser has ended after login resolved and storeTokens rejected with a
\* value that is no Error
C1_Witness ==
  /\ Finished("LoginUser")
  /\ SettledAs(<<"resolved", "rejected">>)
  /\ ~uc.settled[2].value.isError
  /\ ~Get(uc.result).success

\* SendChatMessage has ended after sendChatMessage and saveConversation
\* both resolved
ChatSaved == Finished("SendChatMessage") /\ SettledAs(<<"resolved", "resolved">>)

\* the conversation and the messages of a successful chat result are as C2
\* says, but for the content of the assistant message
ChatResultShape ==
  LET request == Get(uc.request)
      chatResponse == uc.settled[1].value
      result == Get(uc.result)
      updated == ConversationView(heap, Get(result.payload).updatedConversation)
      assistant == Get(result.payload).assistantMessage
      previous == IF IsSome(request.conversation)
                  THEN ConversationView(heap, Get(request.conversation)).messages
                  ELSE <<>>
      user == updated.messages[Len(previous) + 1]
  IN /\ result.success
     /\ IsSome(request.conversation) =>
          updated.id = ConversationView(heap, Get(request.conversation)).id
     /\ Len(updated.messages) = Len(previous) + 2
     /\ SubSeq(updated.messages, 1, Len(previous)) = previous
     /\ MessageView(heap, user).role = "user"
     /\ MessageView(heap, user).content = Trim(Get(request.message))
     /\ updated.messages[Len(previous) + 2] = assistant
     /\ MessageView(heap, assistant).role = "assistant"
     /\ MessageView(heap, assistant).conversationId = chatResponse.conversationId
     /\ MessageView(heap, assistant).spiritualThemes
          = (IF IsSome(chatResponse.spiritualThemes) THEN Get(chatResponse.spiritualThemes) ELSE <<>>)
     /\ MessageView(heap, assistant).suggestedActions
          = (IF IsSome(chatResponse.suggestedActions) THEN Get(chatResponse.suggestedActions) ELSE <<>>)
     /\ MessageView(heap, assistant).relatedTopics
          = (IF IsSome(chatResponse.relatedTopics) THEN Get(chatResponse.relatedTopics) ELSE <<>>)

\* the content of the assistant message of the result
AssistantContent ==
  MessageView(heap, Get(Get(uc.result).payload).assistantMessage).content

\* C2 as stated: when sendChatMessage and saveConversation resolve, execute
\* returns success, updatedConversation keeps the supplied conversation's id
\* and holds its previous messages, then the user message, then the
\* assistant message (2 messages when none was supplied), and
\* assistantMessage carries the response's message, conversationId, themes,
\* actions and topics.
C2_SuccessShape ==
  ChatSaved => (ChatResultShape /\ AssistantContent = uc.settled[1].value.message)

\* C2, amended: the same, with the assistant message's content the
\* response's message trimmed, and themes, actions or topics that the
\* response leaves out read back as empty sequences.
C2_SuccessShapeTrimmed ==
  ChatSaved => (ChatResultShape /\ AssistantContent = Trim(uc.settled[1].value.message))

\* a chat on a supplied conversation has succeeded with a response whose
\* message has white space around it
C2_Witness ==
  /\ ChatSaved
  /\ Get(uc.request).conversation = Some(1)
  /\ Get(uc.result).success
  /\ AssistantContent # uc.settled[1].value.message
  /\ getMessageCount(heap, Get(Get(uc.result).payload).updatedConversation) = 3

\* SendChatMessage has ended after sendChatMessage resolved and
\* saveConversation rejected
ChatNotSaved == Finished("SendChatMessage") /\ SettledAs(<<"resolved", "rejected">>)

\* C3: when sendChatMessage resolves and saveConversation then rejects, the
\* result is success false with the persistence error's message (for an
\* Error: its message, which none of the API patterns rewrites here; for
\* any other value: the generic message), and neither updatedConversation
\* nor assistantMessage.
C3_SaveFailureSurfaces ==
  ChatNotSaved =>
    /\ ~Get(uc.result).success
    /\ Get(uc.result).payload = None
    /\ Get(uc.result).error
         = Some(IF uc.settled[2].value.isError THEN uc.settled[2].value.message
                ELSE "An unexpected error occurred. Please try again.")

\* the chat endpoint answered, the save failed with an Error, and execute
\* has returned
C3_Witness ==
  /\ ChatNotSaved
  /\ uc.calls = <<"sendChatMessage", "saveConversation">>
  /\ uc.settled[2].value = Error("Failed to save conversation: Error: Storage quota exceeded")

\* C4 as stated: when execute returns a validation error no repository
\* method has been invoked, and the same invalid input always yields the
\* same error message.
C4_ValidationDeterministic ==
  (uc.pc = "done" /\ uc.validation) =>
    /\ uc.calls = <<>>
    /\ IsSome(uc.previous) => Get(uc.result).error = Get(uc.previous).error

\* the repeated request is validated as before: by a use case other than
\* RequestAstrologyReading, or on the same day
SameValidation ==
  /\ IsSome(uc.previous)
  /\ uc.useCase # "RequestAstrologyReading" \/ uc.now = Get(uc.previous).now

\* C4, amended: when execute returns a validation error no repository
\* method has been invoked; the same invalid input is rejected again with
\* the same message by every use case but RequestAstrologyReading, whose
\* validation reads the clock (a date of birth must not be in the future)
\* and repeats its verdict when the clock reading falls on the same day.
C4_ValidationBeforeIO ==
  /\ (uc.pc = "done" /\ uc.validation) => (uc.calls = <<>> /\ uc.settled = <<>>)
  /\ SameValidation =>
       /\ uc.pc = "done"
       /\ uc.validation
       /\ Get(uc.result).error = Get(uc.previous).error

\* RequestAstrologyReading has rejected the same future date of birth twice
\* on the same day
C4_Witness ==
  /\ Finished("RequestAstrologyReading")
  /\ uc.validation
  /\ SameValidation
  /\ Get(uc.result).error = Some("Your date of birth cannot be in the future")
  /\ uc.calls = <<>>

(***************************************************************************)
(* AiRepository's conversation storage.  localStorage maps keys to         *)
(* strings: 'stellara_conversation_<id>' to the text of a conversation and *)
(* 'stellara_conversation_ids' to the text of the array of ids.  The       *)
(* storage helpers are async functions without an await of their own, so   *)
(* they read and write localStorage at the moment they are called; every   *)
(* await of a repository method is a point where the other calls in        *)
(* flight run.  A call in flight is [op, pc, id, ids, limit, n, loaded,    *)
(* since].                                                                 *)
(***************************************************************************)
MaxCalls == 4       \* repository calls made in one behaviour
MaxInFlight == 2    \* repository calls in flight at the same time

ConversationIds == {"c1", "c2"}

EmptyStorage == [ids |-> None, records |-> [id \in ConversationIds |-> None]]

\* getConversationIds, as far as it reads: the ids of the index record, or
\* none when there is no storage, no record, or a text that does not parse
getConversationIds(r) ==
  IF ~r.available \/ r.storage.ids = None THEN <<>>
  ELSE IF Get(r.storage.ids).wellFormed THEN Get(r.storage.ids).ids
  ELSE <<>>

\* setStorageItem('stellara_conversation_ids', JSON.stringify(ids))
setConversationIds(storage, ids) ==
  [storage EXCEPT !.ids = Some([wellFormed |-> TRUE, ids |-> ids])]

\* a write of method op is seen by every loadConversations in flight and by
\* the completed ones that are remembered
NoteWrite(r, op) ==
  [r EXCEPT !.calls = [i \in 1..Len(@) |-> [@[i] EXCEPT !.since = @ \cup {op}]],
            !.loads = [i \in 1..Len(@) |-> [@[i] EXCEPT !.since = @ \cup {op}]]]

NewCall(op) ==
  [op |-> op, pc |-> "ids", id |-> "", ids |-> <<>>, limit |-> None, n |-> 0,
   loaded |-> <<>>, since |-> {}, alone |-> TRUE, pre |-> None]

\* a repository method is called while the bounds leave room
CanCall(r) == r.started < MaxCalls /\ Len(r.calls) < MaxInFlight

\* the method op has been called and runs up to its first await
InFlight(r, op, call) ==
  [r EXCEPT !.calls = Append([i \in 1..Len(@) |-> [@[i] EXCEPT !.alone = FALSE]],
                             [call EXCEPT !.alone = (Len(r.calls) = 0)]),
            !.started = @ + 1,
            !.ops = @ \cup {op},
            !.overlapped = @ \/ Len(r.calls) > 0]

\* the call at position i has settled
Completed(r, i, rejected) ==
  [r EXCEPT !.calls = SubSeq(@, 1, i - 1) \o SubSeq(@, i + 1, Len(@)),
            !.rejected = @ \/ rejected]

\* conversationIds.includes(id)
IdsInclude(ids, id) == \E k \in 1..Len(ids) : ids[k] = id

\* conversationIds.filter(id => id !== conversationId)
Filter(ids, id) == SelectSeq(ids, LAMBDA x : x # id)

\* conversationIds.reverse()
Reverse(ids) == [k \in 1..Len(ids) |-> ids[Len(ids) + 1 - k]]

\* limit ? sortedIds.slice(0, limit) : sortedIds
Slice(ids, limit) ==
  IF IsSome(limit) /\ Get(limit) # 0
  THEN SubSeq(ids, 1, IF Get(limit) > 0
                      THEN (IF Get(limit) < Len(ids) THEN Get(limit) ELSE Len(ids))
                      ELSE (IF Len(ids) + Get(limit) > 0 THEN Len(ids) + Get(limit) ELSE 0))
  ELSE ids

\* Array.prototype.sort with (a, b) => b.updatedAt - a.updatedAt: stable,
\* latest update first
RECURSIVE SortByUpdatedAt(_, _)
SortByUpdatedAt(views, acc) ==
  IF views = <<>> THEN acc
  ELSE LET v == Head(views)
           before == SelectSeq(acc, LAMBDA a : Get(a.updatedAt) >= Get(v.updatedAt))
           after == SelectSeq(acc, LAMBDA a : Get(a.updatedAt) < Get(v.updatedAt))
       IN SortByUpdatedAt(Tail(views), before \o <<v>> \o after)

\* saveConversation up to its first await: the record is written
saveConversationCall(r, h, c) ==
  LET id == h.conversations[c].id
      text == StringifyConversation(h, ConversationToJSON(h, c))
      call == [NewCall("saveConversation") EXCEPT !.id = id]
  IN IF r.available
     THEN NoteWrite(InFlight([r EXCEPT !.storage.records[id] = Some(text),
                                       !.saved = @ \cup {id}],
                             "saveConversation", call),
                    "saveConversation")
     ELSE InFlight(r, "saveConversation", [call EXCEPT !.pc = "failed"])

\* saveConversation from one await to the next: the index is read, and in
\* the step after that it is written unless it had the id
saveConversationResume(r, i) ==
  LET call == r.calls[i]
  IN IF call.pc = "failed" THEN Completed(r, i, TRUE)
     ELSE IF call.pc = "ids"
     THEN [r EXCEPT !.calls[i].pc = "write", !.calls[i].ids = getConversationIds(r)]
     ELSE IF IdsInclude(call.ids, call.id) THEN Completed(r, i, FALSE)
     ELSE Completed(NoteWrite([r EXCEPT !.storage = setConversationIds(@, Append(call.ids, call.id))],
                              "saveConversation"),
                    i, FALSE)

\* deleteConversation up to its first await: the record is removed
deleteConversationCall(r, id) ==
  LET call == [NewCall("deleteConversation") EXCEPT !.id = id, !.pre = Some(r.storage)]
  IN IF r.available
     THEN NoteWrite(InFlight([r EXCEPT !.storage.records[id] = None],
                             "deleteConversation", call),
                    "deleteConversation")
     ELSE InFlight(r, "deleteConversation", [call EXCEPT !.pc = "failed"])

\* the deleteConversation call has resolved: what it was called for, the
\* storage it found and left, and whether it ran alone
Deleted(r, call) ==
  [r EXCEPT !.deleted = Some([id |-> call.id, pre |-> Get(call.pre), post |-> r.storage,
                              alone |-> call.alone])]

\* a variant that writes the index back as it read it
deleteConversationResumeUnfiltered(r, i) ==
  LET call == r.calls[i]
  IN IF call.pc = "failed" THEN Completed(r, i, TRUE)
     ELSE IF call.pc = "ids"
     THEN [r EXCEPT !.calls[i].pc = "write", !.calls[i].ids = getConversationIds(r)]
     ELSE Completed(NoteWrite(Deleted([r EXCEPT !.storage = setConversationIds(@, call.ids)],
                                      call),
                              "deleteConversation"),
                    i, FALSE)

\* deleteConversation from one await to the next
deleteConversationResume(r, i) ==
  LET call == r.calls[i]
  IN IF call.pc = "failed" THEN Completed(r, i, TRUE)
     ELSE IF call.pc = "ids"
     THEN [r EXCEPT !.calls[i].pc = "write", !.calls[i].ids = getConversationIds(r)]
     ELSE Completed(NoteWrite(Deleted([r EXCEPT !.storage =
                                                  setConversationIds(@, Filter(call.ids, call.id))],
                                      call),
                              "deleteConversation"),
                    i, FALSE)

\* loadConversation(id) as loadConversations sees it: the conversation read
\* from the record, or nothing when there is no record or it is corrupted
loadConversation(r, h, id) ==
  IF ~r.available \/ r.storage.records[id] = None THEN None
  ELSE LET parsed == ParseConversation(h, Get(r.storage.records[id]))
           c == ConversationFromJSON(parsed.h, parsed.json)
       IN IF c.ok THEN Some(DeepView(c.h, c.ref)) ELSE None

\* a variant of loadConversations that stores the array it reversed
loadConversationsCallReversing(r, limit) ==
  InFlight([r EXCEPT !.storage = IF r.available /\ r.storage.ids # None
                                  THEN setConversationIds(@, Reverse(getConversationIds(r)))
                                  ELSE @],
           "loadConversations",
           [NewCall("loadConversations") EXCEPT !.pc = "load", !.limit = limit,
                                                !.ids = getConversationIds(r)])

\* loadConversations up to its first await: the index is read
loadConversationsCall(r, limit) ==
  InFlight(r, "loadConversations",
           [NewCall("loadConversations") EXCEPT !.pc = "load", !.limit = limit,
                                                !.ids = getConversationIds(r)])

\* loadConversations from one await to the next: the next record is read,
\* and after the last one the conversations are sorted and returned
loadConversationsResume(r, h, i) ==
  LET call == r.calls[i]
      idsToLoad == Slice(Reverse(call.ids), call.limit)
  IN IF call.n < Len(idsToLoad)
     THEN LET conversation == loadConversation(r, h, idsToLoad[call.n + 1])
          IN [r EXCEPT !.calls[i].n = @ + 1,
                       !.calls[i].loaded = @ \o conversation]
     ELSE LET done == [limit |-> call.limit,
                       result |-> SortByUpdatedAt(call.loaded, <<>>),
                       since |-> call.since]
          IN [Completed(r, i, FALSE) EXCEPT
                !.loads = IF @ = <<>> THEN <<done>> ELSE <<@[Len(@)], done>>]

Limits == {None, Some(1)}

SaveConversation ==
  /\ CanCall(repo)
  /\ \E c \in ConvRefs(heap) : repo' = saveConversationCall(repo, heap, c)
  /\ UNCHANGED <<ui, heap, held, last, uc>>

DeleteConversation ==
  /\ CanCall(repo)
  /\ \E id \in ConversationIds : repo' = deleteConversationCall(repo, id)
  /\ UNCHANGED <<ui, heap, held, last, uc>>

\* loadConversations is called after the one before it has returned
LoadConversations ==
  /\ CanCall(repo)
  /\ \A i \in 1..Len(repo.calls) : repo.calls[i].op # "loadConversations"
  /\ \E limit \in Limits : repo' = loadConversationsCall(repo, limit)
  /\ UNCHANGED <<ui, heap, held, last, uc>>

ResumeSaveConversation ==
  /\ \E i \in 1..Len(repo.calls) :
       /\ repo.calls[i].op = "saveConversation"
       /\ repo' = saveConversationResume(repo, i)
  /\ UNCHANGED <<ui, heap, held, last, uc>>

ResumeDeleteConversation ==
  /\ \E i \in 1..Len(repo.calls) :
       /\ repo.calls[i].op = "deleteConversation"
       /\ repo' = deleteConversationResume(repo, i)
  /\ UNCHANGED <<ui, heap, held, last, uc>>

ResumeLoadConversations ==
  /\ \E i \in 1..Len(repo.calls) :
       /\ repo.calls[i].op = "loadConversations"
       /\ repo' = loadConversationsResume(repo, heap, i)
  /\ UNCHANGED <<ui, heap, held, last, uc>>

InitStorage ==
  /\ heap = UseCasePool
  /\ held = [str |-> {}, msg |-> {}]
  /\ last = NoOperation
  /\ uc = Idle
  /\ \E available \in BOOLEAN :
       repo = [available |-> available, storage |-> EmptyStorage, calls |-> <<>>,
               started |-> 0, ops |-> {}, overlapped |-> FALSE,
               rejected |-> FALSE, loads |-> <<>>, saved |-> {}, deleted |-> None]
  /\ ui = NoInterface

NextStorage ==
  \/ SaveConversation
  \/ DeleteConversation
  \/ LoadConversations
  \/ ResumeSaveConversation
  \/ ResumeDeleteConversation
  \/ ResumeLoadConversations

SpecStorage == InitStorage /\ [][NextStorage]_vars

(***************************************************************************)
(* Properties of the conversation storage.                                 *)
(***************************************************************************)
\* every conversation that has a stored record is listed in the index
IndexComplete ==
  \A id \in ConversationIds :
    repo.storage.records[id] # None => IdsInclude(getConversationIds(repo), id)

\* C11: after any set of saveConversation calls has completed, in any
\* interleaving, the index record lists the id of every conversation that
\* has a stored record.
C11_IndexListsEverySavedConversation ==
  (repo.ops = {"saveConversation"} /\ repo.calls = <<>>) => IndexComplete

\* saveConversation calls that never overlap leave a complete index
SavedOneAtATime ==
  (repo.ops = {"saveConversation"} /\ repo.calls = <<>> /\ ~repo.overlapped)
    => IndexComplete

\* two successive loadConversations calls with the same limit have returned
TwoLoads ==
  /\ Len(repo.loads) = 2
  /\ repo.loads[1].limit = repo.loads[2].limit

\* C12 as stated: two successive loadConversations calls with the same
\* limit and no saveConversation between them return equal results,
\* whatever else happens in between.
C12_LoadsEqualWithoutSave ==
  (TwoLoads /\ "saveConversation" \notin repo.loads[1].since)
    => repo.loads[1].result = repo.loads[2].result

\* C12, amended: two successive loadConversations calls with the same limit
\* return equal results when neither saveConversation nor
\* deleteConversation has written to the storage from the start of the
\* first call to the return of the second.
C12_LoadsEqualWithoutWrite ==
  (TwoLoads /\ repo.loads[1].since = {})
    => repo.loads[1].result = repo.loads[2].result

\* both saved conversations have been loaded twice, latest update first
C12_Witness ==
  /\ TwoLoads
  /\ repo.loads[1].since = {}
  /\ Len(repo.loads[2].result) = 2
  /\ repo.loads[2].result[1].id = "c2"
  /\ repo.loads[1].result = repo.loads[2].result

(***************************************************************************)
(* Properties of LoginUser and RegisterUser.                               *)
(***************************************************************************)
AuthUseCases == {"LoginUser", "RegisterUser"}

\* the repository method the use case calls first
AuthMethod == IF uc.useCase = "LoginUser" THEN "login" ELSE "register"

\* the value the last settled call rejected with
Failure2 == uc.settled[Len(uc.settled)].value

\* execute has returned a failure that its catch block built
Caught(useCase) ==
  /\ Finished(useCase)
  /\ ~uc.validation
  /\ ~Get(uc.result).success

\* C13: LoginUser and RegisterUser call storeTokens exactly once, with the
\* tokens that login/register resolved to, after that call resolved and
\* before the success result is returned; storeTokens is never called when
\* validation or login/register fails; and when storeTokens rejects the
\* result is a failure without user and tokens.
C13_TokensStoredOnce ==
  uc.useCase \in AuthUseCases =>
    /\ uc.calls \in {<<>>, <<AuthMethod>>, <<AuthMethod, "storeTokens">>}
    /\ Len(uc.calls) = 2 =>
         /\ uc.settled[1].how = "resolved"
         /\ uc.tokens = Some(uc.settled[1].value.tokens)
    /\ Len(uc.calls) < 2 => uc.tokens = None
    /\ (uc.pc = "done" /\ Get(uc.result).success) =>
         /\ uc.calls = <<AuthMethod, "storeTokens">>
         /\ SettledAs(<<"resolved", "resolved">>)
         /\ Get(uc.result).payload = Some(uc.settled[1].value)
    /\ (uc.pc = "done" /\ uc.validation) => uc.calls = <<>>
    /\ (Len(uc.settled) >= 1 /\ uc.settled[1].how = "rejected") =>
         /\ uc.calls = <<AuthMethod>>
         /\ uc.pc = "done"
    /\ (Len(uc.settled) = 2 /\ uc.settled[2].how = "rejected") =>
         /\ uc.pc = "done"
         /\ ~Get(uc.result).success
         /\ Get(uc.result).payload = None

\* RegisterUser has succeeded after storing the second token pair
C13_Witness ==
  /\ Finished("RegisterUser")
  /\ Get(uc.result).success
  /\ uc.calls = <<"register", "storeTokens">>
  /\ uc.tokens = Some("access-2/refresh-2")

\* C14: LoginUser.execute returns 'Invalid credentials' exactly when the
\* repository failed with an Error whose message is 'Invalid credentials';
\* for every other failure of login or storeTokens, an Error or not, the
\* error is 'Login failed. Please try again.', so the raw text of the
\* failure never shows in the result.
C14_LoginErrorsGeneric ==
  Caught("LoginUser") =>
    /\ Get(uc.result).payload = None
    /\ Get(uc.result).error \in {Some("Invalid credentials"),
                                 Some("Login failed. Please try again.")}
    /\ Get(uc.result).error = Some("Invalid credentials")
         <=> (Failure2.isError /\ Failure2.message = "Invalid credentials")

\* login failed with an Error whose message only starts like the literal
C14_Witness ==
  /\ Caught("LoginUser")
  /\ uc.calls = <<"login">>
  /\ Failure2 = Error("Invalid credentials for ann@example.com")
  /\ Get(uc.result).error = Some("Login failed. Please try again.")

\* C15: RegisterUser.execute maps an Error 'User already exists' to that
\* message, any other Error of register or storeTokens to its raw message,
\* and a value that is no Error to 'Registration failed. Please try
\* again.'; a failure has neither user nor tokens.
C15_RegisterErrorsRaw ==
  Caught("RegisterUser") =>
    /\ Get(uc.result).payload = None
    /\ (Failure2.isError /\ Failure2.message = "User already exists")
         => Get(uc.result).error = Some("User already exists")
    /\ Failure2.isError => Get(uc.result).error = Some(Failure2.message)
    /\ ~Failure2.isError
         => Get(uc.result).error = Some("Registration failed. Please try again.")

\* register resolved and storeTokens failed with an Error
C15_Witness ==
  /\ Caught("RegisterUser")
  /\ uc.calls = <<"register", "storeTokens">>
  /\ Failure2 = Error("Failed to store tokens")
  /\ Get(uc.result).error = Some("Failed to store tokens")

\* the verdict on an email and a password, rule by rule
CredentialError(email, password) ==
  IF ~EmailRegexTest(email) THEN Some("Invalid email format")
  ELSE IF Len(password) < 8 THEN Some("Password must be at least 8 characters long")
  ELSE IF ~HasCharOf(password, Uppercase)
    THEN Some("Password must contain at least one uppercase letter")
  ELSE IF ~HasCharOf(password, Special)
    THEN Some("Password must contain at least one special character")
  ELSE None

\* the verdict RegisterUser adds on the names
NameError(firstName, lastName) ==
  IF Trim(firstName) = "" THEN Some("First name is required")
  ELSE IF Trim(lastName) = "" THEN Some("Last name is required")
  ELSE None

\* C16: LoginUser and RegisterUser apply the same email and password
\* checks in the same order with the same messages (email format, length,
\* uppercase letter, special character), RegisterUser then rejects a
\* firstName and then a lastName that is empty after trim, and for every
\* email and password both use cases give the same verdict.
C16_SameCredentialChecks ==
  (uc.useCase \in AuthUseCases /\ uc.pc # "idle") =>
    LET request == Get(uc.request)
        credential == CredentialError(request.email, request.password)
        expected == IF uc.useCase = "LoginUser" \/ IsSome(credential) THEN credential
                    ELSE NameError(request.firstName, request.lastName)
    IN /\ uc.validation <=> IsSome(expected)
       /\ uc.validation => Get(uc.result).error = expected
       /\ LoginUserValidate([email |-> request.email, password |-> request.password])
            = RegisterUserValidate([email |-> request.email, password |-> request.password,
                                    firstName |-> "Ann", lastName |-> "Lee"])

\* RegisterUser has rejected a password that is short and has neither an
\* uppercase letter nor a special character
C16_Witness ==
  /\ Finished("RegisterUser")
  /\ uc.validation
  /\ Get(uc.request).password = "secret"
  /\ EmailRegexTest(Get(uc.request).email)
  /\ Get(uc.result).error = Some("Password must be at least 8 characters long")

(***************************************************************************)
(* Properties of SendChatMessage's error mapping and validation.           *)
(***************************************************************************)
\* the patterns of the error mapping in their order, each with the message
\* it stands for ("" for the message of the error itself)
ChatErrorPatterns ==
  << <<"Authentication required", "Authentication required. Please log in.">>,
     <<"Message too long", "Message too long. Please keep messages under 2000 characters.">>,
     <<"temporarily unavailable",
       "AI service is temporarily unavailable. Please try again later.">>,
     <<"I can only provide", "">>,
     <<"Invalid request data", "Invalid request. Please check your input and try again.">> >>

\* the patterns that the message holds
Matches(message) ==
  {k \in 1..Len(ChatErrorPatterns) : Includes(message, ChatErrorPatterns[k][1])}

\* the message that the first matching pattern stands for
MappedChatError(error) ==
  IF ~error.isError THEN "An unexpected error occurred. Please try again."
  ELSE IF Matches(error.message) = {} THEN error.message
  ELSE LET first == CHOOSE k \in Matches(error.message) :
                      \A j \in Matches(error.message) : k <= j
       IN IF ChatErrorPatterns[first][2] = "" THEN error.message
          ELSE ChatErrorPatterns[first][2]

\* SendChatMessage has ended because a repository call rejected
ChatRejected ==
  /\ Caught("SendChatMessage")
  /\ uc.settled # <<>>
  /\ uc.settled[Len(uc.settled)].how = "rejected"

\* C17: SendChatMessage maps a thrown Error by case-sensitive substring
\* match on its message, first match wins, in the order 'Authentication
\* required', 'Message too long', 'temporarily unavailable', 'I can only
\* provide' (verbatim), 'Invalid request data'; otherwise the raw message;
\* and a value that is no Error to 'An unexpected error occurred. Please
\* try again.'
C17_ChatErrorMapping ==
  ChatRejected =>
    /\ Get(uc.result).error = Some(MappedChatError(Failure2))
    /\ Get(uc.result).payload = None

\* the chat endpoint failed with a message that holds two of the patterns
C17_Witness ==
  /\ ChatRejected
  /\ Failure2 = Error("Message too long. Authentication required")
  /\ Get(uc.result).error = Some("Authentication required. Please log in.")

\* the verdict of the validation on a chat request, rule by rule; an
\* experience level is present when it is a non-empty string
ChatRequestError(request) ==
  IF ~IsSome(request.message) \/ Trim(Get(request.message)) = ""
    THEN Some("Message cannot be empty")
  ELSE IF Len(Get(request.message)) > 2000
    THEN Some("Message too long. Please keep messages under 2000 characters.")
  ELSE IF /\ request.experienceLevel \notin {None, Some("")}
          /\ request.experienceLevel
               \notin {Some("beginner"), Some("intermediate"), Some("advanced")}
    THEN Some("Invalid experience level. Must be beginner, intermediate, or advanced.")
  ELSE None

MessageRuleViolated(props) ==
  IF Trim(props.id) = "" THEN Some("Message ID is required")
  ELSE IF Trim(props.content) = "" THEN Some("Message content cannot be empty")
  ELSE IF Len(props.content) > 2000
    THEN Some("Message too long. Please keep messages under 2000 characters.")
  ELSE IF props.role # "user" /\ props.role # "assistant"
    THEN Some("Invalid message role. Must be \"user\" or \"assistant\"")
  ELSE IF props.timestamp = None THEN Some("Message timestamp is required")
  ELSE None

\* the sequence that a getter returns for the field
Defaulted(field) == IF field = None THEN <<>> ELSE heap.strArrays[Get(field)]

\* C19: new Message(props) succeeds iff id and content are non-empty after
\* trim, content is at most 2000 long, role is 'user' or 'assistant' and
\* timestamp is present; otherwise it throws the message of the first rule
\* violated in the order id, empty content, content length, role,
\* timestamp, and gives no instance.  On success every getter returns the
\* stored value, and spiritualThemes, suggestedActions and relatedTopics
\* default to empty sequences.
C19_MessageConstructor ==
  last.op = "new Message" =>
    LET props == Get(last.props)
        violated == MessageRuleViolated(props)
    IN /\ last.ok <=> violated = None
       /\ ~last.ok => (last.thrown = Error(Get(violated)) /\ last.res = 0)
       /\ last.ok =>
            /\ last.res \in MsgRefs(heap)
            /\ MessageView(heap, last.res)
                 = [id |-> props.id, role |-> props.role, content |-> props.content,
                    timestamp |-> props.timestamp,
                    conversationId |-> props.conversationId,
                    spiritualThemes |-> Defaulted(props.spiritualThemes),
                    suggestedActions |-> Defaulted(props.suggestedActions),
                    relatedTopics |-> Defaulted(props.relatedTopics)]

\* the constructor has thrown for props that have neither content nor a
\* valid role
C19_Witness ==
  /\ last.op = "new Message"
  /\ ~last.ok
  /\ Get(last.props).content = ""
  /\ Get(last.props).role = "system"
  /\ last.thrown = Error("Message content cannot be empty")

\* the constructor has built a message of 2000 characters without themes
C19_WitnessBuilt ==
  /\ last.op = "new Message"
  /\ last.ok
  /\ Len(Get(last.props).content) = 2000
  /\ MessageView(heap, last.res).spiritualThemes = <<>>

(***************************************************************************)
(* Properties of RequestAstrologyReading's partner rule.                   *)
(***************************************************************************)
\* the request of the invocation, when RequestAstrologyReading has validated
\* it with a valid birthInfo and one of the eight allowed reading types
AstrologyValidated ==
  /\ uc.useCase = "RequestAstrologyReading"
  /\ uc.pc \in {"awaiting", "done"}
  /\ IsSome(Get(uc.request).birthInfo)
  /\ validateBirthInfo(Get(Get(uc.request).birthInfo), "Your", uc.now, uc.lenient) = None
  /\ IsSome(Get(uc.request).readingType)
  /\ \E i \in 1..Len(allowedReadingTypes) :
       allowedReadingTypes[i] = Get(Get(uc.request).readingType)

\* the request carries a partnerBirthInfo that is valid at the clock reading
ValidPartner(request) ==
  /\ IsSome(request.partnerBirthInfo)
  /\ validateBirthInfo(Get(request.partnerBirthInfo), "Partner's", uc.now, uc.lenient) = None

\* validation has rejected the request with this message, without a call
AstrologyRefused(message) ==
  /\ uc.pc = "done"
  /\ uc.validation
  /\ uc.result = Some(Failure(message))
  /\ uc.calls = <<>>

\* C20: for a request with a valid birthInfo and an allowed readingType,
\* validation accepts iff the type is compatibility, composite_chart or
\* synastry and a valid partnerBirthInfo is present, or the type is another
\* allowed type and partnerBirthInfo is absent; a missing partner is refused
\* with 'Partner birth information is required for <type> reading', an
\* unneeded one with 'Partner birth info is not needed for <type> reading',
\* and in both cases the repository is not called.
C20_PartnerRule ==
  AstrologyValidated =>
    LET request == Get(uc.request)
        type == Get(request.readingType)
        takesPartner == type \in {"compatibility", "composite_chart", "synastry"}
    IN /\ (~uc.validation /\ uc.calls # <<>> /\ uc.calls[1] = "requestAstrologyReading")
            <=> \/ takesPartner /\ ValidPartner(request)
                \/ ~takesPartner /\ request.partnerBirthInfo = None
       /\ (uc.validation /\ uc.pc = "done" /\ uc.calls = <<>>)
            <=> ~(\/ takesPartner /\ ValidPartner(request)
                  \/ ~takesPartner /\ request.partnerBirthInfo = None)
       /\ (takesPartner /\ request.partnerBirthInfo = None) =>
            AstrologyRefused("Partner birth information is required for " \o type \o " reading")
       /\ (~takesPartner /\ request.partnerBirthInfo # None) =>
            AstrologyRefused("Partner birth info is not needed for " \o type \o " reading")

\* a daily horoscope has been refused because the request names a partner
C20_Witness ==
  /\ AstrologyValidated
  /\ Get(Get(uc.request).readingType) = "daily_horoscope"
  /\ ValidPartner(Get(uc.request))
  /\ AstrologyRefused("Partner birth info is not needed for daily_horoscope reading")

\* a compatibility reading with a valid partner has reached the repository
C20_WitnessAccepted ==
  /\ AstrologyValidated
  /\ Get(Get(uc.request).readingType) = "compatibility"
  /\ ValidPartner(Get(uc.request))
  /\ uc.calls = <<"requestAstrologyReading">>

(***************************************************************************)
(* Properties of RequestSpiritualGuidance.                                 *)
(***************************************************************************)
\* the message for the first element of the array that is empty after trim
\* or longer than longest, if any
ElementRule(arr, name, cap, longest) ==
  IF \A i \in 1..Len(arr) : Trim(arr[i]) # "" /\ Len(arr[i]) <= longest THEN None
  ELSE LET i == CHOOSE k \in 1..Len(arr) :
                  /\ Trim(arr[k]) = "" \/ Len(arr[k]) > longest
                  /\ \A j \in 1..(k - 1) : Trim(arr[j]) # "" /\ Len(arr[j]) <= longest
       IN IF Trim(arr[i]) = "" THEN Some("All " \o name \o " must be non-empty strings")
          ELSE Some(name \o " items must be under " \o NatToString(cap) \o " characters")

\* the first rule of RequestSpiritualGuidance that the request fails, if
\* any, when an element may be at most cap - under characters long
GuidanceRule(request, under) ==
  LET c == Get(request.userContext)
      NotAnArray(x) == x = None
      Empty(x) == x = Some(<<>>)
  IN IF request.topic = None \/ Trim(Get(request.topic)) = "" THEN Some("Topic cannot be empty")
     ELSE IF Len(Get(request.topic)) > 200
       THEN Some("Topic too long. Please keep topics under 200 characters.")
     ELSE IF request.userContext = None THEN Some("User context is required")
     ELSE IF c.experienceLevel \notin {Some("beginner"), Some("intermediate"), Some("advanced")}
       THEN Some("Invalid experience level. Must be beginner, intermediate, or advanced.")
     ELSE IF NotAnArray(c.spiritualGoals) \/ Empty(c.spiritualGoals)
       THEN Some("At least one spiritual goal is required")
     ELSE IF NotAnArray(c.currentChallenges) \/ Empty(c.currentChallenges)
       THEN Some("At least one current challenge is required")
     ELSE IF NotAnArray(c.preferredPractices) \/ Empty(c.preferredPractices)
       THEN Some("At least one preferred practice is required")
     ELSE IF NotAnArray(c.previousExperiences)
       THEN Some("Previous experiences must be an array")
     ELSE IF Len(Get(c.spiritualGoals)) > 10
       THEN Some("Too many spiritual goals. Please limit to 10 or fewer.")
     ELSE IF Len(Get(c.currentChallenges)) > 10
       THEN Some("Too many challenges. Please limit to 10 or fewer.")
     ELSE IF Len(Get(c.preferredPractices)) > 15
       THEN Some("Too many preferred practices. Please limit to 15 or fewer.")
     ELSE IF Len(Get(c.previousExperiences)) > 20
       THEN Some("Too many previous experiences. Please limit to 20 or fewer.")
     ELSE LET goals == ElementRule(Get(c.spiritualGoals), "spiritual goals", 100, 100 - under)
              challenges == ElementRule(Get(c.currentChallenges), "challenges", 100, 100 - under)
              practices == ElementRule(Get(c.preferredPractices), "practices", 50, 50 - under)
              experiences == ElementRule(Get(c.previousExperiences), "experiences", 200,
                                         200 - under)
          IN IF goals # None THEN goals
             ELSE IF challenges # None THEN challenges
             ELSE IF practices # None THEN practices
             ELSE IF experiences # None THEN experiences
             ELSE IF c.timeAvailable # None /\ Len(Get(c.timeAvailable)) > 50
               THEN Some("Time available description must be under 50 characters")
             ELSE None

\* RequestSpiritualGuidance treats its request by the rules: a request that
\* fails one is refused with that rule's message and without a call, every
\* other request is forwarded with its topic trimmed and the repository's
\* payload is returned as it is
GuidanceFollows(under) ==
  (uc.useCase = "RequestSpiritualGuidance" /\ uc.pc \in {"awaiting", "done"}) =>
    LET request == Get(uc.request)
        failed == GuidanceRule(request, under)
    IN IF failed # None
       THEN /\ uc.pc = "done"
            /\ uc.result = Some(Failure(Get(failed)))
            /\ uc.calls = <<>>
       ELSE /\ uc.calls = <<"requestSpiritualGuidance">>
            /\ uc.sent = Some([topic |-> Trim(Get(request.topic)),
                               userContext |-> request.userContext])
            /\ (uc.pc = "done" /\ SettledAs(<<"resolved">>)) =>
                 uc.result = Some(Success(uc.settled[1].value))

\* C21 as stated: RequestSpiritualGuidance.execute refuses, with the message
\* of the first failing rule and without calling the repository, every
\* request whose topic is empty after trim or longer than 200, whose
\* userContext is missing, whose experienceLevel is missing or not one of
\* the three levels, whose goals, challenges or practices are not a
\* non-empty array, whose previousExperiences is not an array, whose arrays
\* exceed 10, 10, 15, 20 entries, which has an element that is empty after
\* trim or not under its cap of 100/100/50/200 characters, or whose
\* timeAvailable exceeds 50 characters; every other request is forwarded
\* with topic trimmed and the repository's payload is returned unmodified.
C21_GuidanceValidation == GuidanceFollows(1)

\* the same with elements of up to 100/100/50/200 characters let through,
\* which is what validateStringArray's `item.length > maxLength` does
GuidanceValidationUpToCap == GuidanceFollows(0)

\* a request with a goal of exactly 100 characters has reached the repository
GuidanceElementAtCap ==
  /\ uc.useCase = "RequestSpiritualGuidance"
  /\ uc.calls = <<"requestSpiritualGuidance">>
  /\ \E i \in 1..Len(Get(Get(Get(uc.request).userContext).spiritualGoals)) :
       Len(Get(Get(Get(uc.request).userContext).spiritualGoals)[i]) = 100

\* RequestSpiritualGuidance has ended because its repository call rejected
GuidanceCaught ==
  /\ Caught("RequestSpiritualGuidance")
  /\ SettledAs(<<"rejected">>)

\* the first of the patterns, each a pair of substring and message, that the
\* message of the error holds (0 when it holds none)
FirstPattern(patterns, message) ==
  LET held1 == {k \in 1..Len(patterns) : Includes(message, patterns[k][1])}
  IN IF held1 = {} THEN 0 ELSE CHOOSE k \in held1 : \A j \in held1 : k <= j

\* the three patterns that RequestSpiritualGuidance adds
GuidanceExtraPatterns ==
  << <<"Access denied", "Access denied. Please check your permissions.">>,
     <<"Too many requests", "Too many requests. Please try again later.">>,
     <<"Network connection failed",
       "Network connection failed. Please check your internet connection.">> >>

\* what an error mapping that mirrors SendChatMessage's gives: the rule of
\* SendChatMessage that applies, with the service named as guidance names
\* it, and then the three added rules
MirroredChatError(error) ==
  LET chat == FirstPattern(ChatErrorPatterns, error.message)
      extra == FirstPattern(GuidanceExtraPatterns, error.message)
  IN IF ~error.isError THEN "An unexpected error occurred. Please try again."
     ELSE IF chat = 3
       THEN "Spiritual guidance service is temporarily unavailable. Please try again later."
     ELSE IF chat # 0 THEN MappedChatError(error)
     ELSE IF extra # 0 THEN GuidanceExtraPatterns[extra][2]
     ELSE error.message

\* C22 as stated: every Error that SendChatMessage maps by one of its
\* substring rules ('Authentication required', 'Message too long',
\* 'temporarily unavailable', 'I can only provide', 'Invalid request data')
\* is mapped by RequestSpiritualGuidance through the corresponding rule;
\* 'Access denied', 'Too many requests' and 'Network connection failed' are
\* mapped to the access, rate-limit and connectivity messages; anything else
\* is the raw message and a non-Error gives the generic fallback.
C22_GuidanceMirrorsChat ==
  GuidanceCaught => Get(uc.result).error = Some(MirroredChatError(Failure2))

\* the patterns of RequestSpiritualGuidance's error mapping in their order
GuidanceErrorPatterns ==
  << <<"Authentication required", "Authentication required. Please log in.">>,
     <<"Access denied", "Access denied. Please check your permissions.">>,
     <<"Too many requests", "Too many requests. Please try again later.">>,
     <<"temporarily unavailable",
       "Spiritual guidance service is temporarily unavailable. Please try again later.">>,
     <<"Invalid request data", "Invalid request. Please check your input and try again.">>,
     <<"Network connection failed",
       "Network connection failed. Please check your internet connection.">> >>

\* C22, amended: RequestSpiritualGuidance maps a thrown Error by substring
\* match on its message, first match wins, in the order 'Authentication
\* required', 'Access denied', 'Too many requests', 'temporarily
\* unavailable', 'Invalid request data', 'Network connection failed'; it has
\* no rule for 'Message too long' or 'I can only provide'; an Error that
\* matches none gives its raw message and a non-Error the generic fallback.
C22_GuidanceErrorMapping ==
  GuidanceCaught =>
    LET error == Failure2
        first == FirstPattern(GuidanceErrorPatterns, error.message)
    IN /\ Get(uc.result).payload = None
       /\ Get(uc.result).error =
            Some(IF ~error.isError THEN "An unexpected error occurred. Please try again."
                 ELSE IF first = 0 THEN error.message
                 ELSE GuidanceErrorPatterns[first][2])

\* the guidance endpoint failed with 'Message too long', which comes back
\* as it is
C22_Witness ==
  /\ GuidanceCaught
  /\ Failure2 = Error("Message too long")
  /\ Get(uc.result).error = Some("Message too long")

(***************************************************************************)
(* Properties of LoadConversations.                                        *)
(***************************************************************************)
\* LoadConversations has refused the request with this message, without a
\* call
LoadRefused(message) ==
  /\ uc.pc = "done"
  /\ uc.result = Some(Failure(message))
  /\ uc.calls = <<>>
  /\ uc.sent = None

\* C23: a provided limit that is not an integer or is below 1 yields 'Limit
\* must be a positive integer' and a limit above 100 yields 'Limit cannot
\* exceed 100 conversations', both without a repository call; an absent
\* limit or an integer in 1..100 is passed to repository.loadConversations,
\* and every success result carries conversations as an array, possibly
\* empty, never undefined.
C23_LimitValidation ==
  (uc.useCase = "LoadConversations" /\ uc.pc \in {"awaiting", "done"}) =>
    LET limit == Get(uc.request).limit
        halves == Get(limit).halves
    IN IF limit # None /\ (halves % 2 # 0 \/ halves < 2)
         THEN LoadRefused("Limit must be a positive integer")
       ELSE IF limit # None /\ halves > 200
         THEN LoadRefused("Limit cannot exceed 100 conversations")
       ELSE /\ uc.calls = <<"loadConversations">>
            /\ uc.sent = Some(limit)
            /\ (uc.pc = "done" /\ Get(uc.result).success) =>
                 /\ SettledAs(<<"resolved">>)
                 /\ Get(uc.result).payload = Some(uc.settled[1].value)
                 /\ DOMAIN uc.settled[1].value = 1..Len(uc.settled[1].value)

\* a limit of 100 has been passed on and the empty listing returned
C23_Witness ==
  /\ Finished("LoadConversations")
  /\ uc.sent = Some(Some(Half(200)))
  /\ uc.result = Some(Success(<<>>))

(***************************************************************************)
(* Properties of the use cases' repository calls.                          *)
(***************************************************************************)
\* the repository calls of the invocation that have not settled yet
PendingCalls == Len(uc.calls) - Len(uc.settled)

\* C24 as stated: every execute invocation performs at most one outbound
\* call to a repository method in total, and never has two repository calls
\* pending at the same time.
C24_AtMostOneCall ==
  /\ Len(uc.calls) <= 1
  /\ PendingCalls <= 1

\* the calls that an invocation of the use case can make, in their order
CallsOf(useCase) ==
  CASE useCase = "SendChatMessage" -> <<"sendChatMessage", "saveConversation">>
    [] useCase = "LoginUser" -> <<"login", "storeTokens">>
    [] useCase = "RegisterUser" -> <<"register", "storeTokens">>
    [] useCase = "RequestSpiritualGuidance" -> <<"requestSpiritualGuidance">>
    [] useCase = "RequestAstrologyReading" -> <<"requestAstrologyReading">>
    [] useCase = "LoadConversations" -> <<"loadConversations">>
    [] OTHER -> <<>>

\* C24, amended: an execute invocation never has two repository calls
\* pending at the same time; RequestSpiritualGuidance,
\* RequestAstrologyReading and LoadConversations make at most one call,
\* and SendChatMessage, LoginUser and RegisterUser make at most two, the
\* second (saveConversation, storeTokens) only after the first has resolved.
C24_OneCallAtATime ==
  /\ PendingCalls \in {0, 1}
  /\ PendingCalls = 1 <=> uc.pc = "awaiting"
  /\ Len(uc.calls) <= Len(CallsOf(uc.useCase))
  /\ uc.calls = SubSeq(CallsOf(uc.useCase), 1, Len(uc.calls))
  /\ Len(uc.calls) = 2 => uc.settled # <<>> /\ uc.settled[1].how = "resolved"

\* SendChatMessage has sent the message and then saved the conversation
C24_Witness ==
  /\ Finished("SendChatMessage")
  /\ uc.calls = <<"sendChatMessage", "saveConversation">>
  /\ SettledAs(<<"resolved", "resolved">>)
  /\ Get(uc.result).success

\* the response cannot become the next message of the conversation: its
\* text makes no message, or it names another conversation
NotAppendable(response) ==
  \/ Trim(response.message) = ""
  \/ Len(response.message) > 2000
  \/ /\ response.conversationId # None
     /\ response.conversationId # Some(heap.conversations[uc.conversation].id)

\* C25: no automatic retry: within one execute invocation each repository
\* method is invoked at most once, whatever fails; in SendChatMessage,
\* saveConversation is invoked only after sendChatMessage has resolved, and
\* never after sendChatMessage rejected or the assistant message could not
\* be appended.
C25_NoRetry ==
  /\ \A i, j \in 1..Len(uc.calls) : uc.calls[i] = uc.calls[j] => i = j
  /\ \A i \in 1..Len(uc.settled) :
       uc.settled[i].how = "rejected" =>
         /\ i = Len(uc.calls)
         /\ uc.pc = "done"
         /\ ~Get(uc.result).success
  /\ uc.useCase = "SendChatMessage" =>
       /\ (\E i \in 1..Len(uc.calls) : uc.calls[i] = "saveConversation") =>
            /\ uc.settled # <<>>
            /\ uc.settled[1].call = "sendChatMessage"
            /\ uc.settled[1].how = "resolved"
            /\ ~NotAppendable(uc.settled[1].value)
       /\ (/\ uc.settled # <<>>
           /\ uc.settled[1].how = "resolved"
           /\ NotAppendable(uc.settled[1].value)) =>
            /\ uc.pc = "done"
            /\ uc.calls = <<"sendChatMessage">>
            /\ ~Get(uc.result).success

\* the chat endpoint answered for another conversation: the answer was not
\* appended and nothing was saved
C25_Witness ==
  /\ Finished("SendChatMessage")
  /\ SettledAs(<<"resolved">>)
  /\ NotAppendable(uc.settled[1].value)
  /\ Trim(uc.settled[1].value.message) # ""
  /\ uc.calls = <<"sendChatMessage">>
  /\ Get(uc.result).error = Some("Message conversation ID does not match")

\* the chat endpoint failed and nothing was saved
C25_WitnessRejected ==
  /\ Finished("SendChatMessage")
  /\ SettledAs(<<"rejected">>)
  /\ uc.calls = <<"sendChatMessage">>

(***************************************************************************)
(* Properties of SendChatMessage through AiRepository.                     *)
(***************************************************************************)
\* SendChatMessage has ended after the chat endpoint answered the request
\* of AiRepository with a response that is not OK
ChatRefusedByEndpoint ==
  /\ Finished("SendChatMessage")
  /\ IsSome(uc.http)
  /\ ~Get(uc.http).auth.rejected
  /\ Truthy(Get(uc.http).auth.token)
  /\ Get(uc.http).fetched.failure = None
  /\ ~Get(uc.http).fetched.ok

\* the text that the error for a response of the status is to contain
StatusMessage(status) ==
  CASE status = 400 -> "Invalid request"
    [] status = 401 -> "Authentication required"
    [] status = 403 -> "Access denied"
    [] status = 429 -> "Too many requests"
    [] status = 500 -> "AI service is temporarily unavailable"

\* C26 as stated: for a response of the chat endpoint that is not OK, with
\* status 400, 401, 403, 429 or 500 and any JSON error body,
\* SendChatMessage.execute through AiRepository returns success false with
\* an error containing, respectively, 'Invalid request', 'Authentication
\* required', 'Access denied', 'Too many requests', 'AI service is
\* temporarily unavailable'.
C26_StatusMessages ==
  (/\ ChatRefusedByEndpoint
   /\ Get(uc.http).fetched.status \in {400, 401, 403, 429, 500}
   /\ Get(uc.http).fetched.body.kind # "text") =>
    /\ ~Get(uc.result).success
    /\ Includes(Get(Get(uc.result).error), StatusMessage(Get(uc.http).fetched.status))

\* the same without status 400, for which the error is built from the body
StatusMessagesButBadRequest ==
  (/\ ChatRefusedByEndpoint
   /\ Get(uc.http).fetched.status \in {401, 403, 429, 500}) =>
    /\ ~Get(uc.result).success
    /\ Includes(Get(Get(uc.result).error), StatusMessage(Get(uc.http).fetched.status))

\* a status-400 response with the body {"message": "Test error"} has come
\* back as 'Test error'
BadRequestWithOtherMessage ==
  /\ ChatRefusedByEndpoint
  /\ Get(uc.http).fetched.status = 400
  /\ Get(uc.http).fetched.body.message = Some("Test error")
  /\ Get(uc.result).error = Some("Test error")

\* C27 as stated: when a response of the chat endpoint that is not OK has a
\* body that cannot be parsed as JSON, the error returned by
\* SendChatMessage.execute through AiRepository contains the response's
\* status text (for example 'Internal Server Error' for status 500).
C27_StatusTextSurfaces ==
  (ChatRefusedByEndpoint /\ Get(uc.http).fetched.body.kind = "text") =>
    /\ ~Get(uc.result).success
    /\ Includes(Get(Get(uc.result).error), Get(uc.http).fetched.statusText)

\* the same for the statuses that handleErrorResponse has no message for
\* but the one it builds from the body
StatusTextSurfacesUnmapped ==
  (/\ ChatRefusedByEndpoint
   /\ Get(uc.http).fetched.body.kind = "text"
   /\ Get(uc.http).fetched.status \notin {401, 403, 429, 500}) =>
    /\ ~Get(uc.result).success
    /\ Includes(Get(Get(uc.result).error), Get(uc.http).fetched.statusText)

\* a status-500 response with a body that is no JSON has come back without
\* its status text
ServerErrorWithoutStatusText ==
  /\ ChatRefusedByEndpoint
  /\ Get(uc.http).fetched.status = 500
  /\ Get(uc.http).fetched.statusText = "Internal Server Error"
  /\ Get(uc.http).fetched.body.kind = "text"
  /\ Get(uc.result).error
       = Some("AI service is temporarily unavailable. Please try again later.")

(***************************************************************************)
(* ChatInterface.  The component's state is currentConversation (0 for     *)
(* null), messages, inputMessage, isLoading and error.  An event handler   *)
(* runs on the state of the latest render; handleSendMessage runs up to    *)
(* its await of execute in one step and from there in another, after       *)
(* execute has returned.  The effect on [currentConversation] that copies  *)
(* the conversation's messages runs with the state change.  resets,        *)
(* epoch, resetPending and resetWhileLoading record the history: the       *)
(* resets so far, their number when the send in flight started, whether    *)
(* no send started after the last reset has succeeded yet, and whether a   *)
(* reset came while a send was in flight.                                  *)
(***************************************************************************)
MaxSends == 2     \* messages sent in one behaviour
MaxResets == 2    \* presses of New Chat in one behaviour

\* what the user types into the input, at most 2000 characters
ChatInputs == {" Hi ", "  ", ""}

ChatInterfaceInitial ==
  [screen |-> "chat", currentConversation |-> 0, messages |-> <<>>, inputMessage |-> "",
   isLoading |-> FALSE, error |-> None, sends |-> 0, resets |-> 0, epoch |-> 0,
   resetPending |-> FALSE, resetWhileLoading |-> FALSE]

\* onChangeText={setInputMessage}
ChatSetInputMessage ==
  /\ ui.screen = "chat"
  /\ \E text \in ChatInputs \ {ui.inputMessage} : ui' = [ui EXCEPT !.inputMessage = text]
  /\ UNCHANGED <<heap, held, last, uc, repo>>

\* handleSendMessage up to `await sendChatMessage.execute(request)`
handleSendMessage ==
  /\ ui.screen = "chat"
  /\ ui.sends < MaxSends
  /\ Trim(ui.inputMessage) # ""
  /\ ~ui.isLoading
  /\ \E now \in Clock, rnd \in RandomSuffixes :
       LET request == [message |-> Some(Trim(ui.inputMessage)),
                       conversation |-> IF ui.currentConversation = 0 THEN None
                                        ELSE Some(ui.currentConversation),
                       experienceLevel |-> Some("beginner")]
           r == Execute(heap,
                        [NoInvocation EXCEPT !.useCase = "SendChatMessage",
                                             !.request = Some(request), !.now = now],
                        rnd)
       IN /\ heap' = r.h
          /\ uc' = r.u
          /\ ui' = [ui EXCEPT !.inputMessage = "", !.error = None, !.isLoading = TRUE,
                              !.sends = @ + 1, !.epoch = ui.resets]
  /\ UNCHANGED <<held, last, repo>>

\* handleSendMessage from the await on: execute has returned or thrown;
\* nothing holds the invocation any longer
handleSendMessageResume ==
  /\ ui.screen = "chat"
  /\ ui.isLoading
  /\ uc.pc = "done"
  /\ ui' = IF IsSome(uc.escaped)
             THEN [ui EXCEPT !.error = Some("An unexpected error occurred"),
                             !.isLoading = FALSE]
           ELSE IF Get(uc.result).success /\ IsSome(Get(uc.result).payload)
             THEN LET updatedConversation == Get(Get(uc.result).payload).updatedConversation
                  IN [ui EXCEPT !.currentConversation = updatedConversation,
                                !.messages = messagesOf(heap, updatedConversation),
                                !.isLoading = FALSE,
                                !.resetPending = @ /\ ui.epoch # ui.resets]
           ELSE [ui EXCEPT !.error =
                             IF IsSome(Get(uc.result).error) /\ Get(Get(uc.result).error) # ""
                             THEN Get(uc.result).error
                             ELSE Some("Failed to send message"),
                           !.isLoading = FALSE]
  /\ uc' = NoInvocation
  /\ UNCHANGED <<heap, held, last, repo>>

\* handleStartNewConversation
handleStartNewConversation ==
  /\ ui.screen = "chat"
  /\ ui.resets < MaxResets
  /\ ui' = [ui EXCEPT !.currentConversation = 0, !.messages = <<>>, !.error = None,
                      !.resets = @ + 1, !.resetPending = TRUE,
                      !.resetWhileLoading = @ \/ ui.isLoading]
  /\ UNCHANGED <<heap, held, last, uc, repo>>

InitChatInterface ==
  /\ heap = EmptyHeap
  /\ held = [str |-> {}, msg |-> {}]
  /\ last = NoOperation
  /\ uc = NoInvocation
  /\ repo = NoRepository
  /\ ui = ChatInterfaceInitial

NextChatInterface ==
  \/ ChatSetInputMessage
  \/ handleSendMessage
  \/ handleSendMessageResume
  \/ handleStartNewConversation
  \/ RepositoryResolves
  \/ RepositoryRejects

SpecChatInterface == InitChatInterface /\ [][NextChatInterface]_vars

(***************************************************************************)
(* Properties of ChatInterface.                                            *)
(***************************************************************************)
\* C28 as stated: once handleStartNewConversation has reset
\* currentConversation to null, it stays null until a send that was started
\* after the reset succeeds; the result of a send that was in flight at the
\* reset never re-installs its conversation, in any interleaving of the
\* reset with the pending execute.
C28_ResetStays == ui.resetPending => ui.currentConversation = 0

\* the same when New Chat is never pressed while a send is in flight
ResetStaysWhenIdle ==
  (ui.resetPending /\ ~ui.resetWhileLoading) => ui.currentConversation = 0

\* the send that was in flight at the reset has installed its conversation
StaleSendInstalled ==
  /\ ui.resetPending
  /\ ui.resetWhileLoading
  /\ ~ui.isLoading
  /\ ui.currentConversation # 0
  /\ Len(ui.messages) = 2

(***************************************************************************)
(* SpiritualGuidanceForm.  The component's state is formData, isLoading,   *)
(* error and guidance.  The form view renders an input for the topic, a    *)
(* button for each experience level, and for spiritualGoals and            *)
(* currentChallenges an input per element with Remove (when there is more  *)
(* than one) and an Add button (below 10 elements); it renders nothing     *)
(* for preferredPractices, timeAvailable and previousExperiences.  The     *)
(* result view, with its New Request button, replaces the form once        *)
(* guidance is set.  handleSubmit runs up to its await of execute in one   *)
(* step and from there in another.                                         *)
(***************************************************************************)
MaxFormFields == 2    \* elements of an array field in one behaviour

FormArrayFields == {"spiritualGoals", "currentChallenges"}

\* what the user types into the topic input and into an element input
FormTopics == {"", "  ", "Inner peace"}
FormItems == {"", " ", "calm"}

GuidanceFormInitial ==
  [screen |-> "form",
   formData |-> [topic |-> "",
                 userContext |-> [spiritualGoals |-> <<"">>, currentChallenges |-> <<"">>,
                                  experienceLevel |-> "beginner",
                                  preferredPractices |-> <<"">>, timeAvailable |-> "",
                                  previousExperiences |-> <<"">>]],
   isLoading |-> FALSE, error |-> None, guidance |-> None]

\* the form view is shown
FormShown == ui.screen = "form" /\ ui.guidance = None

\* updateFormField('topic', value)
FormUpdateTopic ==
  /\ FormShown
  /\ \E value \in FormTopics \ {ui.formData.topic} :
       ui' = [ui EXCEPT !.formData.topic = value]
  /\ UNCHANGED <<heap, held, last, uc, repo>>

\* updateContextField('experienceLevel', level)
FormUpdateExperienceLevel ==
  /\ FormShown
  /\ \E level \in ExperienceLevels \ {ui.formData.userContext.experienceLevel} :
       ui' = [ui EXCEPT !.formData.userContext.experienceLevel = level]
  /\ UNCHANGED <<heap, held, last, uc, repo>>

\* updateArrayField(field, index, value)
updateArrayField ==
  /\ FormShown
  /\ \E field \in FormArrayFields :
       \E index \in 1..Len(ui.formData.userContext[field]) :
         \E value \in FormItems \ {ui.formData.userContext[field][index]} :
           ui' = [ui EXCEPT !.formData.userContext[field][index] = value]
  /\ UNCHANGED <<heap, held, last, uc, repo>>

\* addArrayField(field)
addArrayField ==
  /\ FormShown
  /\ \E field \in FormArrayFields :
       /\ Len(ui.formData.userContext[field]) < MaxFormFields
       /\ Len(ui.formData.userContext[field]) < 10
       /\ ui' = [ui EXCEPT !.formData.userContext[field] = Append(@, "")]
  /\ UNCHANGED <<heap, held, last, uc, repo>>

\* removeArrayField(field, index)
removeArrayField ==
  /\ FormShown
  /\ \E field \in FormArrayFields :
       LET items == ui.formData.userContext[field]
       IN /\ Len(items) > 1
          /\ \E index \in 1..Len(items) :
               ui' = [ui EXCEPT !.formData.userContext[field] =
                                  SubSeq(items, 1, index - 1)
                                    \o SubSeq(items, index + 1, Len(items))]
  /\ UNCHANGED <<heap, held, last, uc, repo>>

\* g => g.trim()
NonBlank(item) == Trim(item) # ""

\* handleSubmit up to `await requestSpiritualGuidance.execute(cleanedRequest)`
handleSubmit ==
  /\ FormShown
  /\ Trim(ui.formData.topic) # ""
  /\ ~ui.isLoading
  /\ \E rnd \in RandomSuffixes :
       LET context == ui.formData.userContext
           cleanedRequest ==
             [topic |-> Some(ui.formData.topic),
              userContext |->
                Some([experienceLevel |-> Some(context.experienceLevel),
                      spiritualGoals |-> Some(SelectSeq(context.spiritualGoals, NonBlank)),
                      currentChallenges |->
                        Some(SelectSeq(context.currentChallenges, NonBlank)),
                      preferredPractices |->
                        Some(SelectSeq(context.preferredPractices, NonBlank)),
                      previousExperiences |->
                        Some(SelectSeq(context.previousExperiences, NonBlank)),
                      timeAvailable |-> Some(context.timeAvailable)])]
           r == Execute(heap,
                        [NoInvocation EXCEPT !.useCase = "RequestSpiritualGuidance",
                                             !.request = Some(cleanedRequest)],
                        rnd)
       IN /\ heap' = r.h
          /\ uc' = r.u
          /\ ui' = [ui EXCEPT !.isLoading = TRUE, !.error = None, !.guidance = None]
  /\ UNCHANGED <<held, last, repo>>

\* handleSubmit from the await on: execute has returned or thrown; nothing
\* holds the invocation any longer
handleSubmitResume ==
  /\ ui.screen = "form"
  /\ ui.isLoading
  /\ uc.pc = "done"
  /\ ui' = IF IsSome(uc.escaped)
             THEN [ui EXCEPT !.error = Some("An unexpected error occurred"),
                             !.isLoading = FALSE]
           ELSE IF Get(uc.result).success /\ IsSome(Get(uc.result).payload)
             THEN [ui EXCEPT !.guidance = Get(uc.result).payload, !.isLoading = FALSE]
           ELSE [ui EXCEPT !.error =
                             IF IsSome(Get(uc.result).error) /\ Get(Get(uc.result).error) # ""
                             THEN Get(uc.result).error
                             ELSE Some("Failed to get spiritual guidance"),
                           !.isLoading = FALSE]
  /\ uc' = NoInvocation
  /\ UNCHANGED <<heap, held, last, repo>>

InitGuidanceForm ==
  /\ heap = EmptyHeap
  /\ held = [str |-> {}, msg |-> {}]
  /\ last = NoOperation
  /\ uc = NoInvocation
  /\ repo = NoRepository
  /\ ui = GuidanceFormInitial

\* the steps of the form.  execute never gets to its await from here
\* (FormNeverCallsRepository), so no repository call settles and the result
\* view, with resetForm, is never shown.
NextGuidanceForm ==
  \/ FormUpdateTopic
  \/ FormUpdateExperienceLevel
  \/ updateArrayField
  \/ addArrayField
  \/ removeArrayField
  \/ handleSubmit
  \/ handleSubmitResume

SpecGuidanceForm == InitGuidanceForm /\ [][NextGuidanceForm]_vars

(***************************************************************************)
(* Properties of SpiritualGuidanceForm.                                    *)
(***************************************************************************)
\* the form has submitted a request with a topic, a goal and a challenge
FormSubmittedComplete ==
  /\ ui.screen = "form"
  /\ ui.isLoading
  /\ uc.useCase = "RequestSpiritualGuidance"
  /\ Trim(Get(Get(uc.request).topic)) # ""
  /\ Get(Get(Get(uc.request).userContext).spiritualGoals) # <<>>
  /\ Get(Get(Get(uc.request).userContext).currentChallenges) # <<>>

\* C29 as stated: from the initial state of SpiritualGuidanceForm, a user
\* who enters a valid topic, at least one goal and at least one challenge
\* through the inputs the form offers and presses submit causes
\* RequestSpiritualGuidance to call the repository, so that the guidance
\* result view is reachable whenever the repository succeeds.
C29_SubmitCallsRepository ==
  FormSubmittedComplete => uc.calls = <<"requestSpiritualGuidance">>

\* no submission of the form gets to the repository, and the result view is
\* never shown
FormNeverCallsRepository ==
  ui.screen = "form" =>
    /\ uc.calls = <<>>
    /\ uc.pc # "awaiting"
    /\ ui.guidance = None
    /\ Len(SelectSeq(ui.formData.userContext.preferredPractices, NonBlank)) = 0

\* the complete form has been submitted and refused for its practices
FormRefusedForPractices ==
  /\ FormSubmittedComplete
  /\ uc.pc = "done"
  /\ uc.calls = <<>>
  /\ Get(uc.result).error = Some("At least one preferred practice is required")

(***************************************************************************)
(* Properties of deleteConversation.                                       *)
(***************************************************************************)
\* the ids of the index record of the storage
IndexOf(storage) == getConversationIds([repo EXCEPT !.storage = storage])

\* what loadConversations reads of the storage: the index and the records
\* that it lists
LoadObserves(storage) ==
  [ids |-> IndexOf(storage),
   records |-> [k \in 1..Len(IndexOf(storage)) |-> storage.records[IndexOf(storage)[k]]]]

\* C30: after deleteConversation(id) has completed with no concurrent
\* operation, loadConversation(id) returns null, id is absent from the
\* index, and every other conversation's record and index position are
\* unchanged; the index never contains the same id twice after any sequence
\* of saveConversation and deleteConversation calls; and deleting an id
\* that was never saved changes nothing that loadConversations observes.
C30_DeleteFrame ==
  /\ \A i, j \in 1..Len(getConversationIds(repo)) :
       getConversationIds(repo)[i] = getConversationIds(repo)[j] => i = j
  /\ (repo.available /\ repo.deleted # None /\ Get(repo.deleted).alone) =>
       LET d == Get(repo.deleted)
       IN /\ loadConversation([repo EXCEPT !.storage = d.post], heap, d.id) = None
          /\ ~IdsInclude(IndexOf(d.post), d.id)
          /\ \A other \in ConversationIds \ {d.id} :
               d.post.records[other] = d.pre.records[other]
          /\ IndexOf(d.post) = SelectSeq(IndexOf(d.pre), LAMBDA x : x # d.id)
          /\ (d.pre.records[d.id] = None /\ ~IdsInclude(IndexOf(d.pre), d.id)) =>
               LoadObserves(d.post) = LoadObserves(d.pre)

\* the first of two saved conversations has been deleted, with nothing else
\* in flight
C30_Witness ==
  /\ repo.available
  /\ repo.deleted # None
  /\ Get(repo.deleted).alone
  /\ Len(IndexOf(Get(repo.deleted).pre)) = 2
  /\ IndexOf(Get(repo.deleted).pre)[1] = Get(repo.deleted).id
  /\ Get(repo.deleted).pre.records[Get(repo.deleted).id] # None
  /\ Len(IndexOf(Get(repo.deleted).post)) = 1

\* an id that was never saved has been deleted from the empty storage
C30_WitnessNeverSaved ==
  /\ repo.available
  /\ repo.deleted # None
  /\ Get(repo.deleted).alone
  /\ Get(repo.deleted).id \notin repo.saved
  /\ Get(repo.deleted).pre = EmptyStorage

====
